---------------------------- MODULE Spec2Model ----------------------------
(***************************************************************************)
(* Voice-note-to-calendar bot: the transcription pipeline                  *)
(* (src/transcription.py), the model fallback engine and the extractor     *)
(* (src/nlu_service.py), the handlers of src/bot.py, the notification job  *)
(* (src/scheduler.py) and the credentials table (src/database.py).         *)
(*                                                                         *)
(* These specifications share this module:                                 *)
(*   Spec       TranscriptionService.transcribe_voice, one request         *)
(*   SpecChunk  TranscriptionService._transcribe_chunk, one call, with the *)
(*              full history of provider answers and backoff waits         *)
(*   SpecNLU    NLUService: construction, _ensure_model_initialized and    *)
(*              _try_models_with_fallback, any number of extractions       *)
(*   SpecExtract  NLUService.extract_event_info from the model's answer to *)
(*              the returned batch                                         *)
(*   SpecVoice  bot.handle_voice, one voice message, with the extractor    *)
(*              running inside it                                          *)
(*   SpecRace   two extractions in executor threads on one NLUService      *)
(*   SpecTemp   two transcribe_voice calls on the chunked path, sharing    *)
(*              the file system                                            *)
(*   SpecSplit  TranscriptionService._split_audio_file_by_bytes, one call  *)
(*   SpecCache  get_user_calendar_service and save_user_credentials of     *)
(*              bot.py, two handlers of one user                           *)
(*   SpecSetup  bot.handle_text, the credential setup messages of two      *)
(*              users                                                      *)
(*   SpecSched  scheduler.check_and_send_notifications, run once a minute  *)
(*   SpecUpsert database.save_user_credentials, two callers for one user   *)
(*                                                                         *)
(* Durations are exact rationals [n, d] (Python computes them as floats);  *)
(* texts are sequences of one-character strings so that str.strip() and    *)
(* " ".join() are computed, not assumed.                                   *)
(***************************************************************************)
EXTENDS Integers, Sequences, FiniteSets, TLC

VARIABLES
    \* ---- transcribe_voice (Spec) ----
    clip,            \* the audio file: [size, measured, stride]
    ffmpeg_available,\* self._ffmpeg_available after the first check
    pc,              \* position inside transcribe_voice
    total_duration,  \* rational, seconds
    chunk_duration,  \* rational, seconds
    i,               \* loop index of the chunk loop
    chunk,           \* the materialized chunk file chunk_{i}.ogg, or NoChunk
    attempt,         \* loop index inside _transcribe_chunk
    chunks_texts,    \* list of non-empty chunk texts
    result,          \* the returned transcript
    temp_dir,        \* TRUE while <dir>/chunks exists
    windows,         \* history: the windows handed to _split_audio_file
    prev_piece,      \* history: what the previous window materialized as
    heard,           \* history: [idx, raw] per call that returned a text
    requests,        \* history: provider requests of the current (or last) call
    first_retried,   \* history: the first answer of that call led to a retry
    in_flight,       \* indexes of the chunks with a provider request not answered yet
    \* ---- _transcribe_chunk alone (SpecChunk) ----
    tc,              \* [pc, attempt, answers, waits, text]
    \* ---- NLUService (SpecNLU) ----
    model,           \* self.model: the candidate the client object was built for
    model_name,      \* self.model_name
    npc,             \* position inside extract_event_info
    models_to_try,   \* attempt order of the running _try_models_with_fallback
    k,               \* number of candidates already taken from models_to_try
    last_error,      \* last_error of the running call
    tried,           \* history: [name, how] per candidate of the running call
    start_cursor,    \* history: self.model_name when the attempt order was built
    failure,         \* the exception extract_event_info raised
    extractions,     \* number of extractions started
    \* ---- extract_event_info after the model answered (SpecExtract) ----
    epc,             \* position inside extract_event_info
    result_text,     \* the response text, one-character strings
    payload,         \* the JSON document the character "{" stands for
    events,          \* the list the loop walks
    ev,              \* loop index into events
    processed_events,\* the batch being built
    now,             \* the clock in the configured zone, hours
    raised,          \* the exception extract_event_info raised
    fallbacks,       \* history: per record, the clock when its start was replaced
    \* ---- handle_voice (SpecVoice) ----
    hpc,             \* position inside handle_voice
    file_exists,     \* TRUE while temp/<file_id>.ogg exists
    events_info,     \* the batch extract_event_info returned
    event_idx,       \* idx, the loop index of the event loop
    created_events,  \* positions of the records reported as created
    errors,          \* [pos, why] per record reported as an error
    calendar,        \* the user's calendar: [pos, summary] per event written
    db_events,       \* rows of calendar_events: the positions inserted
    create_calls,    \* history: positions passed to cal_service.create_event
    notifications,   \* the notification rows: [pos, minutes_before, at]
    hexit,           \* how handle_voice ended: "none", "returned", "raised"
    \* ---- two extractions in executor threads (SpecRace) ----
    th,              \* per thread: [pc, order, k, local, tried] of its
                     \* _try_models_with_fallback
    \* ---- two transcribe_voice calls on the chunked path (SpecTemp) ----
    rq,              \* per call: [pc, i, data, texts, failed, exit]
    chunks_dir,      \* temp/chunks: [exists, creator]
    chunk_files,     \* chunk_{i}.ogg: whose audio it holds, NoFile if absent
    harm,            \* history: [by, kind, of] per access to another call's storage
    \* ---- _split_audio_file_by_bytes alone (SpecSplit) ----
    sp,              \* [pc, file, start_byte, chunk_size, piece]
    \* ---- the per-user calendar services of bot.py (SpecCache) ----
    user_calendar_services, \* the entry of the user: NoService or [creds, connected]
    credentials_row, \* the user's row of user_credentials: NoCreds or the credentials
    config_credentials, \* Config.YANDEX_USER and Config.YANDEX_PASS are set
    kt,              \* per handler: [pc, arg, read]
    kcalls,          \* number of calls started
    \* ---- handle_text of bot.py (SpecSetup) ----
    user_setup_state,\* per user: the pending email, NoEmail if the user has no entry
    urows,           \* per user: the row of user_credentials, NoRow if none
    handled,         \* history: the last message and what the handler did with it
    umsgs,           \* number of messages handled
    \* ---- check_and_send_notifications of scheduler.py (SpecSched) ----
    nrows,           \* per notification row: [at, sent, event]
    deliveries,      \* history: per row, the messages delivered for it
    sclock,          \* the clock, in minutes
    srun,            \* the running job: [pc, todo]
    \* ---- database.save_user_credentials (SpecUpsert) ----
    user_credentials,\* the rows of the table for one telegram_user_id
    dcall,           \* per caller: [pc, arg, existing, exit]
    dsaved,          \* history: the values the calls were made with
    dcalls           \* number of calls started

tvars == <<clip, ffmpeg_available, pc, total_duration, chunk_duration, i, chunk,
           attempt, chunks_texts, result, temp_dir, windows, prev_piece, heard,
           requests, first_retried, in_flight>>
cvars == <<tc>>
nvars == <<model, model_name, npc, models_to_try, k, last_error, tried,
           start_cursor, failure, extractions>>
evars == <<epc, result_text, payload, events, ev, processed_events, now, raised,
           fallbacks>>
hvars == <<hpc, file_exists, events_info, event_idx, created_events, errors, calendar,
           db_events, create_calls, notifications, hexit>>
rvars == <<th>>
fvars == <<rq, chunks_dir, chunk_files, harm>>
kvars == <<user_calendar_services, credentials_row, config_credentials, kt, kcalls>>
uvars == <<user_setup_state, urows, handled, umsgs>>
qvars == <<nrows, deliveries, sclock, srun>>
dvars == <<user_credentials, dcall, dsaved, dcalls>>
svars == <<sp, kvars, uvars, qvars, dvars>>
xvars == <<evars, hvars, rvars, fvars, svars>>
vars == <<tvars, cvars, nvars, xvars>>
eothers == <<tvars, cvars, nvars, hvars, rvars, fvars, svars>>
hothers == <<tvars, cvars, nvars, rvars, fvars, svars>>
nrest == <<npc, models_to_try, k, last_error, tried, start_cursor, failure, extractions>>
rothers == <<tvars, cvars, nrest, evars, hvars, fvars, svars>>
fothers == <<tvars, cvars, nvars, evars, hvars, rvars, svars>>

-----------------------------------------------------------------------------
(* Program constants *)

max_size == 1048576
max_retries == 3
MAX_CHUNK_DURATION == 25
DURATION_LIMIT == 30
ESTIMATE_BYTES_PER_SECOND == 10240
PAGE_SEARCH_BACK == 5000
PAGE_SEARCH_AHEAD == 1000

\* int(self.max_size * 0.9)
SafeChunkBytes == (max_size * 9) \div 10

(* Bounds of the model *)

MaxTextLen == 2
MaxExtractions == 2
MaxItems == 3
MaxNow == 1
WindowsPerCall == 2

-----------------------------------------------------------------------------
(* Exact rational arithmetic, numerators >= 0 and denominators > 0 *)

RECURSIVE GCD(_, _)
GCD(a, b) == IF b = 0 THEN a ELSE GCD(b, a % b)

Rat(n, d) == LET g == GCD(n, d) IN [n |-> n \div g, d |-> d \div g]

RMul(a, b) ==
    LET g1 == GCD(a.n, b.d)
        g2 == GCD(b.n, a.d)
    IN  Rat((a.n \div g1) * (b.n \div g2), (a.d \div g2) * (b.d \div g1))

RDiv(a, b) == RMul(a, [n |-> b.d, d |-> b.n])
\* a and b over their least common denominator: <<a', b', lcd>>
Common(a, b) ==
    LET g == GCD(a.d, b.d)
    IN  <<a.n * (b.d \div g), b.n * (a.d \div g), (a.d \div g) * b.d>>
RSub(a, b) == LET c == Common(a, b) IN Rat(c[1] - c[2], c[3])
RLess(a, b) == LET c == Common(a, b) IN c[1] < c[2]
RLeq(a, b) == LET c == Common(a, b) IN c[1] <= c[2]
RMin(a, b) == IF RLeq(a, b) THEN a ELSE b
RMax(a, b) == IF RLeq(a, b) THEN b ELSE a
RInt(n) == [n |-> n, d |-> 1]
\* Python's int() on a non-negative float
RFloor(a) == a.n \div a.d

-----------------------------------------------------------------------------
(* Texts: str.strip() and " ".join() *)

SPACE == " "

RECURSIVE LStrip(_)
LStrip(s) == IF s # <<>> /\ Head(s) = SPACE THEN LStrip(Tail(s)) ELSE s

RECURSIVE RStrip(_)
RStrip(s) ==
    IF s # <<>> /\ s[Len(s)] = SPACE THEN RStrip(SubSeq(s, 1, Len(s) - 1)) ELSE s

\* str.strip()
Strip(s) == RStrip(LStrip(s))

RECURSIVE JoinRec(_, _)
JoinRec(sep, texts) ==
    IF texts = <<>> THEN <<>>
    ELSE IF Len(texts) = 1 THEN texts[1]
    ELSE texts[1] \o sep \o JoinRec(sep, Tail(texts))

\* " ".join(chunks_texts)
Join(texts) == JoinRec(<<SPACE>>, texts)

\* every text of at most n characters over the alphabet
RECURSIVE TextsUpTo(_, _)
TextsUpTo(alphabet, n) ==
    IF n = 0 THEN {<<>>}
    ELSE LET shorter == TextsUpTo(alphabet, n - 1)
         IN  shorter \cup {<<c>> \o t : c \in alphabet, t \in {u \in shorter : Len(u) = n - 1}}

\* the word spoken in window idx of the clip ("w" for an unsplit clip)
Word(idx) == IF idx < 0 THEN "w" ELSE ToString(idx)

\* what the provider may recognise in the audio of window idx
TextsOf(idx) == TextsUpTo({SPACE, Word(idx)}, MaxTextLen)

-----------------------------------------------------------------------------
(* The speech provider's answers to one request *)

ISE == "INTERNAL_SERVER_ERROR"

\* the error bodies told apart by _transcribe_chunk: the parsed error_code, and
\* whether the error message holds the literal INTERNAL_SERVER_ERROR
ErrorBodies ==
    { [code |-> ISE,           mentions |-> FALSE],
      [code |-> "BAD_REQUEST", mentions |-> FALSE],
      [code |-> "none",        mentions |-> FALSE],
      [code |-> "none",        mentions |-> TRUE] }

\* kind "result": HTTP 200 whose JSON has "result" (text, or null);
\* kind "error": a non-200 status, or HTTP 200 whose JSON has no "result";
\* kind "exception": session.post raised (connection error, timeout), whose
\*                   message does not hold the literal INTERNAL_SERVER_ERROR
Responses(idx) ==
    { [kind |-> "result", status |-> 200, code |-> "none", mentions |-> FALSE,
       null |-> FALSE, text |-> t] : t \in TextsOf(idx) }
    \cup
    { [kind |-> "result", status |-> 200, code |-> "none", mentions |-> FALSE,
       null |-> TRUE, text |-> <<>>] }
    \cup
    { [kind |-> "error", status |-> s, code |-> b.code, mentions |-> b.mentions,
       null |-> FALSE, text |-> <<>>] : s \in {200, 400, 500, 503}, b \in ErrorBodies }
    \cup
    { [kind |-> "exception", status |-> 0, code |-> "none", mentions |-> FALSE,
       null |-> FALSE, text |-> <<>>] }

\* wait_time = (attempt + 1) * 2
WaitTime(att) == (att + 1) * 2

TryBody_NoStrip(r, att) ==
    IF r.kind = "exception" THEN [kind |-> "raise", mentions |-> FALSE]
    ELSE IF r.kind = "error" THEN
        IF r.status = 500 \/ (r.code = ISE /\ att < max_retries - 1)
        THEN [kind |-> "continue", wait |-> WaitTime(att)]
        ELSE [kind |-> "raise", mentions |-> r.mentions]
    ELSE [kind |-> "return", text |-> r.text]

\* the body of the try block for one answer: return, continue (after a sleep)
\* or raise an exception whose message may hold the literal
TryBody(r, att) ==
    IF r.kind = "exception" THEN [kind |-> "raise", mentions |-> FALSE]
    ELSE IF r.status # 200 THEN
        IF r.status = 500 \/ (r.code = ISE /\ att < max_retries - 1)
        THEN [kind |-> "continue", wait |-> WaitTime(att)]
        ELSE [kind |-> "raise", mentions |-> r.mentions]
    ELSE IF r.kind = "error" THEN
        IF r.code = ISE /\ att < max_retries - 1
        THEN [kind |-> "continue", wait |-> WaitTime(att)]
        ELSE [kind |-> "raise", mentions |-> r.mentions]
    ELSE [kind |-> "return",
          text |-> IF r.null \/ r.text = <<>> THEN <<>> ELSE Strip(r.text)]

ExceptBlock_RetryAll(e, att) ==
    IF att = max_retries - 1
    THEN [kind |-> "raise"]
    ELSE [kind |-> "continue", wait |-> WaitTime(att)]

\* the except block: re-raise on the last attempt or when the message does not
\* hold the literal, else sleep and go round again
ExceptBlock(e, att) ==
    IF att = max_retries - 1 \/ ~e.mentions
    THEN [kind |-> "raise"]
    ELSE [kind |-> "continue", wait |-> WaitTime(att)]

\* one iteration of the loop of _transcribe_chunk
ChunkOutcome(r, att) ==
    LET t == TryBody(r, att)
    IN  IF t.kind = "raise" THEN ExceptBlock(t, att) ELSE t

\* where the call stands after the answer to attempt att:
\* "returned", "raised" (at once, or after the last sleep when the loop is
\* exhausted) or "request" (the next iteration)
AfterAttempt(r, att) ==
    LET o == ChunkOutcome(r, att)
    IN  IF o.kind = "return" THEN "returned"
        ELSE IF o.kind = "raise" THEN "raised"
        ELSE IF att + 1 < max_retries THEN "request" ELSE "raised"

-----------------------------------------------------------------------------
(* SpecChunk: one call of _transcribe_chunk *)

TcInit == [pc |-> "request", attempt |-> 0, answers |-> <<>>, waits |-> <<>>,
           text |-> <<>>]

\* one provider request of the call and what the loop does with its answer
ChunkAttempt ==
    /\ tc.pc = "request"
    /\ \E r \in Responses(-1) :
         LET o == ChunkOutcome(r, tc.attempt)
         IN  tc' = [pc |-> AfterAttempt(r, tc.attempt),
                    attempt |-> IF o.kind = "continue" THEN tc.attempt + 1 ELSE tc.attempt,
                    answers |-> Append(tc.answers, r),
                    waits |-> IF o.kind = "continue" THEN Append(tc.waits, o.wait) ELSE tc.waits,
                    text |-> IF o.kind = "return" THEN o.text ELSE <<>>]
    /\ UNCHANGED <<tvars, nvars, xvars>>

-----------------------------------------------------------------------------
(* transcribe_voice: durations, windows and the splitters *)

\* the clips of the model: byte size, the duration ffprobe or mutagen reports
\* (0: neither tool gives one) and the distance between OGG page headers
\* (pages start at the multiples of stride; 0: the file holds no 'OggS')
Clips ==
    { [size |-> c[1], measured |-> c[2], stride |-> st] :
        c \in { <<500000, 20>>, <<500000, 0>>, <<1048576, 30>>, <<1048577, 30>>,
                <<400000, 31>>, <<2000000, 40>>, <<1300000, 60>>, <<800000, 75>> },
        st \in {0, 2048, 600000} }

\* _get_audio_duration: the measured duration, else the estimate by file size
GetAudioDuration(size, measured) ==
    IF measured > 0 THEN RInt(measured) ELSE Rat(size, ESTIMATE_BYTES_PER_SECOND)

\* file_size <= self.max_size and total_duration <= 30.0
FitsProvider(size, duration) ==
    size <= max_size /\ RLeq(duration, RInt(DURATION_LIMIT))

\* chunk_duration = min((max_size * 0.9) / (file_size / total_duration), 25.0)
ChunkDuration(size, duration) ==
    LET bytes_per_second == RDiv(RInt(size), duration)
        chunk_duration_by_size == RDiv(Rat(max_size * 9, 10), bytes_per_second)
    IN  RMin(chunk_duration_by_size, RInt(MAX_CHUNK_DURATION))

\* num_chunks = int((total_duration / chunk_duration) + 1)
NumChunks(duration, cd) == RFloor(RDiv(duration, cd)) + 1

\* start_time = i * chunk_duration
StartTime(idx, cd) == RMul(RInt(idx), cd)

LoopEnds_NoBreak(idx, duration, cd) == idx >= NumChunks(duration, cd)

\* the for loop is over, by range(num_chunks) or by the break on start_time
LoopEnds(idx, duration, cd) ==
    \/ idx >= NumChunks(duration, cd)
    \/ ~RLess(StartTime(idx, cd), duration)

\* current_duration = min(chunk_duration, total_duration - start_time)
CurrentDuration(idx, duration, cd) ==
    RMin(cd, RSub(duration, StartTime(idx, cd)))

\* _find_ogg_page_boundary on the len bytes read from offset from: the offset
\* of the first 'OggS' inside the data, or -1
FindOggPageBoundary(stride, from, len) ==
    IF stride = 0 THEN -1
    ELSE LET p == ((from + stride - 1) \div stride) * stride
         IN  IF p + 4 <= from + len THEN p - from ELSE -1

Min(a, b) == IF a <= b THEN a ELSE b
Max(a, b) == IF a >= b THEN a ELSE b

NoPiece == [by |-> "none", lo |-> 0, hi |-> 0, size |-> 0, target |-> 0, end |-> 0,
            dur |-> RInt(0)]

\* _split_audio_file_by_bytes: the byte range [lo, hi) written to the chunk
\* file, with the range [target, end) it aimed at before the search for a
\* page boundary, or NoPiece when it returns False
SplitAudioFileByBytes(c, start_byte0, chunk_size0) ==
    LET chunk_size == Min(chunk_size0, SafeChunkBytes)
        start_byte == Max(0, Min(start_byte0, c.size - 1))
        end_byte == Min(start_byte + chunk_size, c.size)
        search_start == Max(0, start_byte - PAGE_SEARCH_BACK)
        page == FindOggPageBoundary(c.stride, search_start,
                    Min(end_byte - search_start + PAGE_SEARCH_AHEAD, c.size - search_start))
        actual_start == search_start + page
        actual_chunk_size == Min(end_byte - actual_start, SafeChunkBytes)
        lo == IF start_byte > 0 /\ page >= 0 THEN actual_start ELSE start_byte
        \* file.read(n): n bytes, everything up to the end of the file for
        \* n = -1, ValueError (caught, False) for n < -1
        hi == IF start_byte > 0 /\ page >= 0
              THEN IF actual_chunk_size = -1 THEN c.size
                   ELSE IF actual_chunk_size < -1 THEN lo
                   ELSE lo + actual_chunk_size
              ELSE end_byte
    IN  IF hi > lo
        THEN [by |-> "bytes", lo |-> lo, hi |-> hi, size |-> hi - lo,
              target |-> start_byte, end |-> end_byte, dur |-> RInt(0)]
        ELSE NoPiece

\* the byte-offset branch of _split_audio_file
SplitByEstimate(c, start_time, duration) ==
    LET audio_duration == GetAudioDuration(c.size, c.measured)
        estimated_bytes_per_second == RDiv(RInt(c.size), RMax(RInt(1), audio_duration))
        start_byte == RFloor(RMul(start_time, estimated_bytes_per_second))
        chunk_size == RFloor(RMul(duration, estimated_bytes_per_second))
    IN  SplitAudioFileByBytes(c, Min(start_byte, c.size - 1), Min(chunk_size, SafeChunkBytes))

\* what ffmpeg -ss start -t duration -acodec copy may write: the window, in a
\* file of about the window's share of the bytes or (container overhead, a
\* wrong cut) one over the provider's limit
FfmpegPieces(c, start_time, duration) ==
    LET share == RFloor(RMul(duration, RDiv(RInt(c.size), GetAudioDuration(c.size, c.measured))))
    IN  { [by |-> "ffmpeg", lo |-> 0, hi |-> 0, size |-> sz, target |-> 0, end |-> 0,
           dur |-> RInt(0)] :
            sz \in {Max(1, share), max_size + 1} }

\* no tool gives a duration for the chunk file: ffprobe is missing or fails
\* and mutagen reads no positive length
NoMeasure == -1

\* what ffprobe or mutagen may report for a chunk file, in seconds
ChunkMeasures == {NoMeasure, DURATION_LIMIT, DURATION_LIMIT + 1}

\* _get_audio_duration(chunk_path), lines 92-114: the reported duration, else
\* the estimate file_size / (10 * 1024)
ChunkDurationActual(size, measured) ==
    IF measured = NoMeasure THEN Rat(size, ESTIMATE_BYTES_PER_SECOND) ELSE RInt(measured)

\* chunk_size > self.max_size (line 498)
TooBig(size) == size > max_size

TooLong_Never(d) == FALSE

\* chunk_duration_actual > 30.0 (line 508)
TooLong(d) == RLess(RInt(DURATION_LIMIT), d)

-----------------------------------------------------------------------------
(* SpecSplit: one call of _split_audio_file_by_bytes *)

\* the files of the calls: byte size and distance between OGG page headers
SplitFiles ==
    { [size |-> sz, measured |-> 0, stride |-> st] :
        sz \in {300000, 2000000}, st \in {0, 2048, 6011, 65000} }

\* the start_byte and chunk_size arguments of the calls
SplitStarts == {0, 1, 4000, 6000, 130000, 943718, 2500000}
SplitSizes == {10, 5000, 65000, 943718, 1500000}

SInit ==
    \E f \in SplitFiles, b \in SplitStarts, n \in SplitSizes :
        sp = [pc |-> "call", file |-> f, start_byte |-> b, chunk_size |-> n,
              piece |-> NoPiece]

\* lines 181-233: the chunk file the call writes; an I/O error makes it
\* return False
SplitBytes ==
    /\ UNCHANGED <<tvars, cvars, nvars, evars, hvars, rvars, fvars, kvars, uvars, qvars, dvars>>
    /\ sp.pc = "call"
    /\ \E piece \in {SplitAudioFileByBytes(sp.file, sp.start_byte, sp.chunk_size), NoPiece} :
         sp' = [sp EXCEPT !.pc = "done", !.piece = piece]

NextSplit == SplitBytes

\* the splitter of a specification that does not run it alone
SpIdle ==
    sp = [pc |-> "idle", file |-> [size |-> 1, measured |-> 1, stride |-> 0],
          start_byte |-> 0, chunk_size |-> 0, piece |-> NoPiece]

-----------------------------------------------------------------------------
(* Spec: one request to transcribe_voice *)

NoRat == RInt(0)

TInit ==
    /\ clip \in Clips
    /\ ffmpeg_available \in BOOLEAN
    /\ pc = "start"
    /\ total_duration = NoRat
    /\ chunk_duration = NoRat
    /\ i = 0
    /\ chunk = NoPiece
    /\ attempt = 0
    /\ chunks_texts = <<>>
    /\ result = <<>>
    /\ temp_dir = FALSE
    /\ windows = <<>>
    /\ prev_piece = NoPiece
    /\ heard = <<>>
    /\ requests = 0
    /\ first_retried = FALSE
    /\ in_flight = {}

\* lines 416-470: measure the clip, then either read it whole for the single
\* request or fix chunk_duration and create the chunks directory
Begin ==
    /\ UNCHANGED <<cvars, nvars, xvars>>
    /\ pc = "start"
    /\ LET d == GetAudioDuration(clip.size, clip.measured)
       IN  /\ total_duration' = d
           /\ IF FitsProvider(clip.size, d)
              THEN /\ pc' = "single"
                   /\ UNCHANGED <<chunk_duration, temp_dir>>
              ELSE /\ pc' = "split"
                   /\ chunk_duration' = ChunkDuration(clip.size, d)
                   /\ temp_dir' = TRUE
    /\ UNCHANGED <<in_flight, clip, ffmpeg_available, i, chunk, attempt, chunks_texts, result,
                   windows, prev_piece, heard, requests, first_retried>>

NoText_Never(text) == FALSE

\* `if not text` (line 432)
NoText(text) == text = <<>>

\* lines 430-435: the single call of _transcribe_chunk, one provider request
\* per step; an empty text makes transcribe_voice raise
SingleRequest ==
    /\ UNCHANGED <<cvars, nvars, xvars>>
    /\ pc = "single"
    /\ \E r \in Responses(-1) :
         LET o == ChunkOutcome(r, attempt)
             after == AfterAttempt(r, attempt)
         IN  /\ requests' = requests + 1
             /\ first_retried' = IF requests = 0 THEN o.kind = "continue" ELSE first_retried
             /\ attempt' = IF o.kind = "continue" THEN attempt + 1 ELSE attempt
             /\ heard' = IF o.kind = "return"
                         THEN Append(heard, [idx |-> -1, raw |-> r.text]) ELSE heard
             /\ IF after = "request"
                THEN UNCHANGED <<pc, result>>
                ELSE IF after = "returned" /\ ~NoText(o.text)
                THEN pc' = "returned" /\ result' = o.text
                ELSE pc' = "raised" /\ UNCHANGED result
    /\ UNCHANGED <<in_flight, clip, ffmpeg_available, total_duration, chunk_duration, i, chunk,
                   chunks_texts, temp_dir, windows, prev_piece>>

\* what chunk_{i}.ogg holds after _split_audio_file, NoPiece when it returned
\* False: ffmpeg's output when ffmpeg is there and succeeds, else the byte
\* splitter's, which also fails on an I/O error
SplitResults(c, ff, start_time, duration) ==
    (IF ff THEN FfmpegPieces(c, start_time, duration) ELSE {})
    \cup {SplitByEstimate(c, start_time, duration), NoPiece}

\* lines 479-494: the loop head and _split_audio_file for window i
SplitChunk ==
    /\ UNCHANGED <<cvars, nvars, xvars>>
    /\ pc = "split"
    /\ IF LoopEnds(i, total_duration, chunk_duration)
       THEN /\ pc' = "finish"
            /\ UNCHANGED <<i, chunk, windows, prev_piece>>
       ELSE LET start_time == StartTime(i, chunk_duration)
                current_duration == CurrentDuration(i, total_duration, chunk_duration)
            IN  \E piece \in SplitResults(clip, ffmpeg_available, start_time, current_duration) :
                  /\ windows' = Append(windows,
                         [idx |-> i, start |-> start_time, len |-> current_duration,
                          fate |-> IF piece = NoPiece THEN "unsplit" ELSE "written"])
                  /\ IF piece = NoPiece
                     THEN /\ i' = i + 1
                          /\ prev_piece' = NoPiece
                          /\ UNCHANGED <<pc, chunk>>
                     ELSE /\ chunk' = piece
                          /\ pc' = "check"
                          /\ UNCHANGED <<i, prev_piece>>
    /\ UNCHANGED <<in_flight, clip, ffmpeg_available, total_duration, chunk_duration, attempt,
                   chunks_texts, result, temp_dir, heard, requests, first_retried>>

\* lines 496-517: a chunk file over max_size, or of a duration over 30 s by
\* _get_audio_duration, is removed and skipped; else its call of
\* _transcribe_chunk starts
CheckChunk ==
    /\ UNCHANGED <<cvars, nvars, xvars>>
    /\ pc = "check"
    /\ \E measured \in (IF TooBig(chunk.size) THEN {NoMeasure} ELSE ChunkMeasures) :
         LET d == ChunkDurationActual(chunk.size, measured)
             seen == IF TooBig(chunk.size) THEN chunk ELSE [chunk EXCEPT !.dur = d]
         IN  /\ prev_piece' = chunk
             /\ IF TooBig(chunk.size) \/ TooLong(d)
                THEN /\ chunk' = NoPiece
                     /\ i' = i + 1
                     /\ pc' = "split"
                     /\ windows' = [windows EXCEPT ![Len(windows)].fate =
                                        IF TooBig(chunk.size) THEN "too big" ELSE "too long"]
                     /\ UNCHANGED <<attempt, requests, first_retried>>
                ELSE /\ pc' = "request"
                     /\ chunk' = seen
                     /\ attempt' = 0
                     /\ requests' = 0
                     /\ first_retried' = FALSE
                     /\ windows' = [windows EXCEPT ![Len(windows)].fate = "sent"]
                     /\ UNCHANGED i
    /\ UNCHANGED <<in_flight, clip, ffmpeg_available, total_duration, chunk_duration,
                   chunks_texts, result, temp_dir, heard>>

AppendChunkText_Prepend(texts, t) == <<t>> \o texts

\* chunks_texts.append(chunk_text)
AppendChunkText(texts, t) == Append(texts, t)

ChunkCallDone_Abort(after) == IF after = "raised" THEN "raised" ELSE "split"

\* lines 528-536: an exception of the chunk's call is logged and the loop
\* continues with the next window, as it does after a text
ChunkCallDone(after) == "split"

AfterSend_NoAwait == "split"

\* `chunk_text = await self._transcribe_chunk(chunk_data, session)` (line
\* 524) around `async with session.post(...) as response` (line 330): the
\* loop body is suspended until the answer to the request is there
AfterSend == "response"

\* lines 519-524 and 328-335: the chunk's call of _transcribe_chunk sends a
\* provider request
SendChunkRequest ==
    /\ UNCHANGED <<cvars, nvars, xvars>>
    /\ pc = "request"
    /\ in_flight' = in_flight \cup {i}
    /\ requests' = requests + 1
    /\ pc' = AfterSend
    /\ UNCHANGED <<clip, ffmpeg_available, total_duration, chunk_duration, i, chunk,
                   attempt, chunks_texts, result, temp_dir, windows, prev_piece, heard,
                   first_retried>>

\* lines 336-394 and 525-536: the answer to the request; the call goes round
\* again, or it is over: its non-empty text is kept, an exception is logged,
\* the chunk file is removed and the loop goes on
ChunkRequest ==
    /\ UNCHANGED <<cvars, nvars, xvars>>
    /\ pc = "response"
    /\ in_flight' = in_flight \ {i}
    /\ \E r \in Responses(i) :
         LET o == ChunkOutcome(r, attempt)
             after == AfterAttempt(r, attempt)
         IN  /\ first_retried' = IF requests = 1 THEN o.kind = "continue" ELSE first_retried
             /\ attempt' = IF o.kind = "continue" THEN attempt + 1 ELSE attempt
             /\ heard' = IF o.kind = "return"
                         THEN Append(heard, [idx |-> i, raw |-> r.text]) ELSE heard
             /\ chunks_texts' = IF o.kind = "return" /\ o.text # <<>>
                                THEN AppendChunkText(chunks_texts, o.text) ELSE chunks_texts
             /\ IF after = "request"
                THEN pc' = "request" /\ UNCHANGED <<i, chunk, windows>>
                ELSE /\ pc' = ChunkCallDone(after)
                     /\ i' = i + 1
                     /\ chunk' = NoPiece
                     /\ windows' = [windows EXCEPT ![Len(windows)].fate = "done"]
    /\ UNCHANGED <<clip, ffmpeg_available, total_duration, chunk_duration, result,
                   temp_dir, prev_piece, requests>>

FullText_NoSeparator(texts) == Strip(JoinRec(<<>>, texts))

\* full_text = " ".join(chunks_texts); return full_text.strip()
FullText(texts) == Strip(Join(texts))

\* lines 538-552: raise when no chunk gave a text, else return the joined
\* texts; the chunks directory is removed either way
Finish ==
    /\ UNCHANGED <<cvars, nvars, xvars>>
    /\ pc = "finish"
    /\ IF chunks_texts = <<>>
       THEN pc' = "raised" /\ UNCHANGED result
       ELSE pc' = "returned" /\ result' = FullText(chunks_texts)
    /\ temp_dir' = FALSE
    /\ UNCHANGED <<in_flight, clip, ffmpeg_available, total_duration, chunk_duration, i, chunk,
                   attempt, chunks_texts, windows, prev_piece, heard, requests,
                   first_retried>>

TNext ==
    \/ Begin
    \/ SingleRequest
    \/ SplitChunk
    \/ CheckChunk
    \/ SendChunkRequest
    \/ ChunkRequest
    \/ Finish

-----------------------------------------------------------------------------
(* NLUService: the candidate models and the last-known-good cursor *)

MODEL_PRIORITIES ==
    << "gemini-2.5-flash", "gemini-1.5-flash", "gemini-1.5-pro", "gemini-pro" >>

Candidates == {MODEL_PRIORITIES[j] : j \in 1..Len(MODEL_PRIORITIES)}

None == "None"
NoError == [name |-> None, how |-> "none"]
NoFailure == [type |-> "none", carries |-> NoError]

\* list.index(name), counted from 0
IndexOf(name) == (CHOOSE j \in 1..Len(MODEL_PRIORITIES) : MODEL_PRIORITIES[j] = name) - 1

ModelsToTry_CurrentFirst(name) ==
    IF name # None
    THEN <<name>> \o SelectSeq(MODEL_PRIORITIES, LAMBDA m : m # name)
    ELSE MODEL_PRIORITIES

\* lines 149-156: MODEL_PRIORITIES[current_index:] + MODEL_PRIORITIES[:current_index]
ModelsToTry(name) ==
    IF name # None
    THEN LET current_index == IF name \in Candidates THEN IndexOf(name) ELSE 0
         IN  SubSeq(MODEL_PRIORITIES, current_index + 1, Len(MODEL_PRIORITIES))
             \o SubSeq(MODEL_PRIORITIES, 1, current_index)
    ELSE MODEL_PRIORITIES

CursorAfterSuccess_Keep(name, current) == current

\* lines 179-182: self.model_name after a success with candidate name
CursorAfterSuccess(name, current) == IF name # current THEN name ELSE current

CursorAfterFailure_Built(name, current) == name

\* lines 162-172 and 186-189: the client object of another candidate is the
\* local `model`; an attempt that raises assigns neither self.model nor
\* self.model_name
CursorAfterFailure(name, current) == current

\* how one candidate can end: the client object cannot be built (only for a
\* candidate other than the current one, lines 162-172), the request or
\* response.text raises, or the text comes back
Outcomes(name, current) ==
    (IF name # current THEN {"construct"} ELSE {}) \cup {"generate", "ok"}

\* the state after NLUService.__init__: _initialize_model keeps the first
\* candidate whose client object could be built, or none
NInit ==
    /\ \E m \in Candidates \cup {None} : model = m /\ model_name = m
    /\ npc = "idle"
    /\ models_to_try = <<>>
    /\ k = 0
    /\ last_error = NoError
    /\ tried = <<>>
    /\ start_cursor = None
    /\ failure = NoFailure
    /\ extractions = 0

\* the candidates whose construction failed in _ensure_model_initialized
ConstructFailures(n) == [j \in 1..n |-> [name |-> MODEL_PRIORITIES[j], how |-> "construct"]]

\* extract_event_info, lines 204-215: _ensure_model_initialized, then the
\* fallback call is handed to the executor
StartExtraction ==
    /\ UNCHANGED <<tvars, cvars, xvars>>
    /\ npc \in {"idle", "returned", "failed"}
    /\ extractions < MaxExtractions
    /\ extractions' = extractions + 1
    /\ models_to_try' = <<>>
    /\ k' = 0
    /\ last_error' = NoError
    /\ start_cursor' = None
    /\ IF model # None
       THEN /\ npc' = "order"
            /\ tried' = <<>>
            /\ failure' = NoFailure
            /\ UNCHANGED <<model, model_name>>
       ELSE \E failed \in 0..Len(MODEL_PRIORITIES) :
              /\ tried' = ConstructFailures(failed)
              /\ IF failed < Len(MODEL_PRIORITIES)
                 THEN /\ model' = MODEL_PRIORITIES[failed + 1]
                      /\ model_name' = MODEL_PRIORITIES[failed + 1]
                      /\ npc' = "order"
                      /\ failure' = NoFailure
                 ELSE /\ npc' = "failed"
                      /\ failure' = [type |-> "RuntimeError", carries |-> NoError]
                      /\ UNCHANGED <<model, model_name>>

\* _try_models_with_fallback, lines 148-158
BuildOrder ==
    /\ UNCHANGED <<tvars, cvars, xvars>>
    /\ npc = "order"
    /\ models_to_try' = ModelsToTry(model_name)
    /\ start_cursor' = model_name
    /\ k' = 0
    /\ last_error' = NoError
    /\ tried' = <<>>
    /\ npc' = "try"
    /\ UNCHANGED <<model, model_name, failure, extractions>>

\* one iteration of the loop, lines 159-189
TryCandidate ==
    /\ UNCHANGED <<tvars, cvars, xvars>>
    /\ npc = "try"
    /\ k < Len(models_to_try)
    /\ LET name == models_to_try[k + 1]
       IN  \E how \in Outcomes(name, model_name) :
             /\ tried' = Append(tried, [name |-> name, how |-> how])
             /\ k' = k + 1
             /\ IF how = "ok"
                THEN /\ model' = CursorAfterSuccess(name, model_name)
                     /\ model_name' = CursorAfterSuccess(name, model_name)
                     /\ npc' = "returned"
                     /\ UNCHANGED last_error
                ELSE /\ last_error' = [name |-> name, how |-> how]
                     /\ model' = CursorAfterFailure(name, model)
                     /\ model_name' = CursorAfterFailure(name, model_name)
                     /\ UNCHANGED npc
    /\ UNCHANGED <<models_to_try, start_cursor, failure, extractions>>

\* line 192, re-raised by extract_event_info (lines 279-281)
RaiseAllFailed ==
    /\ UNCHANGED <<tvars, cvars, xvars>>
    /\ npc = "try"
    /\ k = Len(models_to_try)
    /\ npc' = "failed"
    /\ failure' = [type |-> "RuntimeError", carries |-> last_error]
    /\ UNCHANGED <<model, model_name, models_to_try, k, last_error, tried,
                   start_cursor, extractions>>

NextNLU ==
    \/ StartExtraction
    \/ BuildOrder
    \/ TryCandidate
    \/ RaiseAllFailed

\* the NLUService of a specification that does not run it
NIdle ==
    /\ model = None
    /\ model_name = None
    /\ npc = "idle"
    /\ models_to_try = <<>>
    /\ k = 0
    /\ last_error = NoError
    /\ tried = <<>>
    /\ start_cursor = None
    /\ failure = NoFailure
    /\ extractions = 0

\* the TranscriptionService of a specification that does not run it
TIdle ==
    /\ clip = [size |-> 1, measured |-> 1, stride |-> 0]
    /\ ffmpeg_available = FALSE
    /\ pc = "idle"
    /\ total_duration = NoRat
    /\ chunk_duration = NoRat
    /\ i = 0
    /\ chunk = NoPiece
    /\ attempt = 0
    /\ chunks_texts = <<>>
    /\ result = <<>>
    /\ temp_dir = FALSE
    /\ windows = <<>>
    /\ prev_piece = NoPiece
    /\ heard = <<>>
    /\ requests = 0
    /\ first_retried = FALSE
    /\ in_flight = {}

-----------------------------------------------------------------------------
(* extract_event_info: from the model's response text to the batch *)

\* JSON values as json.loads builds them; Absent is a key the mapping lacks
Absent == [k |-> "absent"]
Null == [k |-> "null"]
Str(s) == [k |-> "str", s |-> s]
Num(n) == [k |-> "num", n |-> n]
Dict(f) == [k |-> "dict", f |-> f]
List(items) == [k |-> "list", items |-> items]
Invalid == [k |-> "invalid"]

\* a datetime object: wall-clock hours and tzinfo
NoTz == "naive"
UTC == "UTC"
LocalZone == "Config.TIMEZONE"
Dt(wall, tz) == [k |-> "dt", wall |-> wall, tz |-> tz]

\* timedelta(days=1), in hours
ONE_DAY == 24

\* the values of setdefault (lines 262-264)
DefaultAction == Str("create_event")
DefaultDuration == Num(60)
DefaultDescription == Null

\* dateutil's parser.parse: a datetime for a date string, naive unless the
\* string carries an offset; anything else raises
ParserParse(v) ==
    IF v.k # "str" THEN [ok |-> FALSE, dt |-> Null]
    ELSE CASE v.s = "2025-01-15 15:00:00"  -> [ok |-> TRUE, dt |-> Dt(39, NoTz)]
           [] v.s = "2025-01-15T15:00:00Z" -> [ok |-> TRUE, dt |-> Dt(39, UTC)]
           [] OTHER                        -> [ok |-> FALSE, dt |-> Null]

Localize_AsUTC(dt) == Dt(dt.wall, UTC)

\* self.timezone.localize(dt)
Localize(dt) == Dt(dt.wall, LocalZone)

FallbackStart_Naive(t) == Dt(t + ONE_DAY, NoTz)

\* self._get_current_datetime() + timedelta(days=1) (line 259)
FallbackStart(t) == Dt(t + ONE_DAY, LocalZone)

\* lines 248-259: what event["start_datetime"] holds after the record was
\* processed at clock t
StartAfter(v, t) ==
    IF v.k = "absent" THEN Absent
    ELSE LET p == ParserParse(v)
         IN  IF p.ok
             THEN IF p.dt.tz = NoTz THEN Localize(p.dt) ELSE p.dt
             ELSE FallbackStart(t)

\* the except branch of lines 256-259 was taken
FellBack(v) == v.k # "absent" /\ ~ParserParse(v).ok

SetDefault_Overwrite(v, d) == d

\* dict.setdefault
SetDefault(v, d) == IF v.k = "absent" THEN d ELSE v

\* lines 247-264 on one mapping
ProcessRecord(e, t) ==
    [action           |-> SetDefault(e.action, DefaultAction),
     summary          |-> e.summary,
     start_datetime   |-> StartAfter(e.start_datetime, t),
     duration_minutes |-> SetDefault(e.duration_minutes, DefaultDuration),
     description      |-> SetDefault(e.description, DefaultDescription)]

\* response texts: "{" stands for the JSON document, "x" for prose
NL == "\n"
WS == {" ", NL}
BT == "BACKTICK"
Fence == <<BT, BT, BT>>
JsonFence == Fence \o <<"j", "s", "o", "n">>

RECURSIVE LStripWS(_)
LStripWS(s) == IF s # <<>> /\ Head(s) \in WS THEN LStripWS(Tail(s)) ELSE s

RECURSIVE RStripWS(_)
RStripWS(s) ==
    IF s # <<>> /\ s[Len(s)] \in WS THEN RStripWS(SubSeq(s, 1, Len(s) - 1)) ELSE s

\* str.strip() of a response text
StripWS(s) == RStripWS(LStripWS(s))

StartsWith(s, p) == Len(s) >= Len(p) /\ SubSeq(s, 1, Len(p)) = p
EndsWith(s, p) == Len(s) >= Len(p) /\ SubSeq(s, Len(s) - Len(p) + 1, Len(s)) = p

\* lines 218-224
StripFences(t) ==
    LET a == IF StartsWith(t, JsonFence) THEN SubSeq(t, 7 + 1, Len(t)) ELSE t
        b == IF StartsWith(a, Fence) THEN SubSeq(a, 3 + 1, Len(a)) ELSE a
        c == IF EndsWith(b, Fence) THEN SubSeq(b, 1, Len(b) - 3) ELSE b
    IN  StripWS(c)

\* json.loads: the document when the text is the document alone, between
\* optional whitespace, and the document is well formed
JsonLoads(t, doc) == IF StripWS(t) = <<"{">> THEN doc ELSE Invalid

\* how a model may wrap its document; the text is already stripped (line 176)
ResponseTexts ==
    { <<"{">>,
      JsonFence \o <<NL, "{", NL>> \o Fence,
      Fence \o <<NL, "{", NL>> \o Fence,
      Fence \o <<"p", "y", NL, "{", NL>> \o Fence,
      JsonFence \o <<NL, "{">>,
      <<"{", NL>> \o Fence,
      <<"x", " ", "{">> }

\* the mappings a model may send
Mappings ==
    [action           : {Absent, Null, Str("create_event"), Str("delete_event")},
     summary          : {Absent, Str("s1"), Str("")},
     start_datetime   : {Absent, Null, Num(7), Str("2025-01-15 15:00:00"),
                         Str("2025-01-15T15:00:00Z"), Str("the day after")},
     duration_minutes : {Absent, Null, Num(90), Num(0), Str("90")},
     description      : {Absent, Null, Str("d")}]

EmptyMapping ==
    [action |-> Absent, summary |-> Absent, start_datetime |-> Absent,
     duration_minutes |-> Absent, description |-> Absent]

\* the elements of the arrays a model may send
Elements ==
    { Num(7),
      Dict(EmptyMapping),
      Dict([EmptyMapping EXCEPT !.summary = Str("s1"),
                                !.start_datetime = Str("2025-01-15 15:00:00")]),
      Dict([EmptyMapping EXCEPT !.summary = Str("s2"),
                                !.start_datetime = Str("the day after")]),
      Dict([EmptyMapping EXCEPT !.summary = Str("s1"),
                                !.action = Str("delete_event"),
                                !.start_datetime = Str("2025-01-15T15:00:00Z")]) }

RECURSIVE ListsUpTo(_, _)
ListsUpTo(S, n) ==
    IF n = 0 THEN {<<>>}
    ELSE LET shorter == ListsUpTo(S, n - 1)
         IN  shorter \cup {Append(l, x) : l \in {m \in shorter : Len(m) = n - 1}, x \in S}

\* the JSON documents a model may send, Invalid for a malformed one
Documents ==
    {Dict(f) : f \in Mappings}
    \cup {List(l) : l \in ListsUpTo(Elements, MaxItems)}
    \cup {Num(7), Str("s"), Null, Invalid}

EInit ==
    /\ epc = "call"
    /\ result_text = <<>>
    /\ payload = Null
    /\ events = <<>>
    /\ ev = 0
    /\ processed_events = <<>>
    /\ now \in 0..MaxNow
    /\ raised = "none"
    /\ fallbacks = <<>>

\* lines 206-215: the model answers with a text, or every candidate failed
CallModel ==
    /\ UNCHANGED eothers
    /\ epc = "call"
    /\ \/ /\ \E doc \in Documents, t \in ResponseTexts :
               /\ result_text' = t
               /\ payload' = doc
          /\ epc' = "strip"
          /\ UNCHANGED raised
       \/ /\ raised' = "RuntimeError"
          /\ epc' = "raised"
          /\ UNCHANGED <<result_text, payload>>
    /\ UNCHANGED <<events, ev, processed_events, now, fallbacks>>

\* lines 217-224
RemoveFences ==
    /\ UNCHANGED eothers
    /\ epc = "strip"
    /\ result_text' = StripFences(result_text)
    /\ epc' = "parse"
    /\ UNCHANGED <<payload, events, ev, processed_events, now, raised, fallbacks>>

\* lines 226-238 and 275-278: parse, then wrap an object into a list
ParseResponse ==
    /\ UNCHANGED eothers
    /\ epc = "parse"
    /\ LET parsed == JsonLoads(result_text, payload)
       IN  CASE parsed.k = "list" ->
                  events' = parsed.items /\ epc' = "loop" /\ UNCHANGED raised
             [] parsed.k = "dict" ->
                  events' = <<parsed>> /\ epc' = "loop" /\ UNCHANGED raised
             [] OTHER ->
                  raised' = "ValueError" /\ epc' = "raised" /\ UNCHANGED events
    /\ UNCHANGED <<result_text, payload, ev, processed_events, now, fallbacks>>

AfterMalformed_Raise == "raised"

\* line 245: `continue`
AfterMalformed == "loop"

AppendEvent_Prepend(batch, e) == <<e>> \o batch

\* processed_events.append(event)
AppendEvent(batch, e) == Append(batch, e)

\* lines 242-266: one turn of the loop, at a clock that may have advanced
ProcessEvent ==
    /\ UNCHANGED eothers
    /\ epc = "loop"
    /\ ev < Len(events)
    /\ \E t \in {now, Min(now + 1, MaxNow)} :
         LET e == events[ev + 1]
         IN  /\ now' = t
             /\ ev' = ev + 1
             /\ IF e.k # "dict"
                THEN /\ epc' = AfterMalformed
                     /\ raised' = IF AfterMalformed = "raised" THEN "TypeError" ELSE raised
                     /\ UNCHANGED <<processed_events, fallbacks>>
                ELSE /\ processed_events' = AppendEvent(processed_events, ProcessRecord(e.f, t))
                     /\ fallbacks' = Append(fallbacks,
                                            IF FellBack(e.f.start_datetime) THEN t ELSE -1)
                     /\ UNCHANGED <<epc, raised>>
    /\ UNCHANGED <<result_text, payload, events>>

NoEvents_Never(batch) == FALSE

\* `if not processed_events` (line 268)
NoEvents(batch) == batch = <<>>

\* lines 268-273
ReturnBatch ==
    /\ UNCHANGED eothers
    /\ epc = "loop"
    /\ ev = Len(events)
    /\ IF NoEvents(processed_events)
       THEN raised' = "ValueError" /\ epc' = "raised"
       ELSE epc' = "returned" /\ UNCHANGED raised
    /\ UNCHANGED <<result_text, payload, events, ev, processed_events, now, fallbacks>>

NextExtract ==
    \/ CallModel
    \/ RemoveFences
    \/ ParseResponse
    \/ ProcessEvent
    \/ ReturnBatch

\* the extractor of a specification that does not run it
EIdle ==
    /\ epc = "idle"
    /\ result_text = <<>>
    /\ payload = Null
    /\ events = <<>>
    /\ ev = 0
    /\ processed_events = <<>>
    /\ now = 0
    /\ raised = "none"
    /\ fallbacks = <<>>

-----------------------------------------------------------------------------
(* handle_voice: download, transcribe, extract, write the events, clean up *)

HInit ==
    /\ hpc = "start"
    /\ file_exists = FALSE
    /\ events_info = <<>>
    /\ event_idx = 0
    /\ created_events = <<>>
    /\ errors = <<>>
    /\ calendar = <<>>
    /\ db_events = <<>>
    /\ create_calls = <<>>
    /\ notifications = {}
    /\ hexit = "none"

\* lines 353-366: the outer except removes the file and answers; the handler
\* raises when that answer cannot be sent
HandlerFailed ==
    /\ file_exists' = FALSE
    /\ hpc' = "done"
    /\ \E sent \in BOOLEAN : hexit' = IF sent THEN "returned" ELSE "raised"

\* a `return` inside the try (lines 259, 263, 280)
ReturnEarly ==
    /\ hpc' = "done"
    /\ hexit' = "returned"
    /\ UNCHANGED file_exists

\* line 212, outside the try
Acknowledge ==
    /\ UNCHANGED <<hothers, evars>>
    /\ hpc = "start"
    /\ \E sent \in BOOLEAN :
         IF sent THEN hpc' = "download" /\ UNCHANGED hexit
         ELSE hpc' = "done" /\ hexit' = "raised"
    /\ UNCHANGED <<file_exists, events_info, event_idx, created_events, errors, calendar,
                   db_events, create_calls, notifications>>

\* lines 214-233: get_file, download_file, getsize, the progress message
Download ==
    /\ UNCHANGED <<hothers, evars>>
    /\ hpc = "download"
    /\ \/ /\ file_exists' = TRUE
          /\ hpc' = "transcribe"
          /\ UNCHANGED hexit
       \/ HandlerFailed
    /\ UNCHANGED <<events_info, event_idx, created_events, errors, calendar, db_events,
                   create_calls, notifications>>

\* what transcribe_voice gives: a non-empty text, or "raise"
TranscribeResults == {<<"w">>, <<"raise">>}

\* lines 235-269: transcribe_voice, the answers around it, and the call of
\* extract_event_info
Transcribe ==
    /\ UNCHANGED hothers
    /\ hpc = "transcribe"
    /\ \E text \in TranscribeResults, sent \in BOOLEAN :
         IF ~sent
         THEN HandlerFailed /\ UNCHANGED evars
         ELSE IF text = <<"raise">> \/ NoText(text) \/ Len(Strip(text)) = 0
         THEN ReturnEarly /\ UNCHANGED evars
         ELSE /\ hpc' = "extract"
              /\ epc' = "call"
              /\ UNCHANGED <<file_exists, hexit, result_text, payload, events, ev,
                             processed_events, now, raised, fallbacks>>
    /\ UNCHANGED <<events_info, event_idx, created_events, errors, calendar, db_events,
                   create_calls, notifications>>

\* get_user_calendar_service (lines 43-62): a service, ValueError when no
\* credentials are set or the connection fails, another exception from the
\* database
CalendarServiceResults == {"service", "ValueError", "error"}

ExtractionOver_Any(p) == TRUE

\* `events_info = await nlu_service.extract_event_info(text)` (line 269): the
\* handler goes on when the coroutine has returned or raised
ExtractionOver(p) == p \in {"returned", "raised"}

\* lines 269-284: extract_event_info is over; then the calendar service
GetCalendar ==
    /\ UNCHANGED <<hothers, evars>>
    /\ hpc = "extract"
    /\ ExtractionOver(epc)
    /\ IF epc = "raised"
       THEN HandlerFailed /\ UNCHANGED events_info
       ELSE /\ events_info' = processed_events
            /\ \E service \in CalendarServiceResults, sent \in BOOLEAN :
                 CASE service = "service" ->
                        hpc' = "loop" /\ UNCHANGED <<file_exists, hexit>>
                   [] service = "ValueError" /\ sent -> ReturnEarly
                   [] OTHER -> HandlerFailed
    /\ UNCHANGED <<event_idx, created_events, errors, calendar, db_events, create_calls,
                   notifications>>

\* the keyword arguments of line 291 can be read (no KeyError)
HasArguments(e) == e.summary # Absent /\ e.start_datetime # Absent

\* YandexCalendarService.create_event reaches save_event: timedelta(minutes=)
\* takes a number
ReachesSave(e) == e.duration_minutes.k = "num"

\* `from scheduler import create_notifications` (line 309): scheduler.py
\* imports async_session, CalendarEvent and Notification from database,
\* which defines none of them
NotificationResults == {"ImportError"}

\* Config.NOTIFICATION_TIMES, minutes before the start
NOTIFICATION_TIMES == {15, 60}

MINUTES_PER_HOUR == 60

\* create_notifications (scheduler.py, lines 17-38): one row per configured
\* offset whose instant start - offset is after the clock; start is in
\* hours, the clock and the rows are in minutes
CreateNotifications(pos, start, clock) ==
    {[pos |-> pos, minutes_before |-> m, at |-> start.wall * MINUTES_PER_HOUR - m] :
        m \in {n \in NOTIFICATION_TIMES : start.wall * MINUTES_PER_HOUR - n > clock}}

\* lines 286-321: one record of the batch
CreateOne ==
    /\ UNCHANGED <<hothers, evars>>
    /\ hpc = "loop"
    /\ event_idx < Len(events_info)
    /\ LET pos == event_idx + 1
           e == events_info[pos]
       IN  IF e.action = Str("create_event")
           THEN \E sent \in BOOLEAN, saved \in BOOLEAN, inserted \in BOOLEAN,
                   notified \in NotificationResults :
                  LET called == sent /\ HasArguments(e)
                      written == called /\ ReachesSave(e) /\ saved
                      stored == written /\ inserted
                      done == stored /\ notified = "ok"
                  IN  /\ create_calls' = IF called THEN Append(create_calls, pos) ELSE create_calls
                      /\ calendar' = IF written
                                     THEN Append(calendar, [pos |-> pos, summary |-> e.summary])
                                     ELSE calendar
                      /\ db_events' = IF stored THEN Append(db_events, pos) ELSE db_events
                      /\ notifications' =
                            IF done
                            THEN notifications \cup
                                 CreateNotifications(pos, e.start_datetime,
                                                     now * MINUTES_PER_HOUR)
                            ELSE notifications
                      /\ created_events' = IF done THEN Append(created_events, pos)
                                           ELSE created_events
                      /\ errors' = IF done THEN errors
                                   ELSE Append(errors, [pos |-> pos, why |-> "failed"])
           ELSE /\ errors' = Append(errors, [pos |-> pos, why |-> "unsupported"])
                /\ UNCHANGED <<create_calls, calendar, db_events, created_events,
                               notifications>>
    /\ event_idx' = event_idx + 1
    /\ UNCHANGED <<hpc, file_exists, events_info, hexit>>

\* lines 323-351: the summary messages, then the file is removed
Reply ==
    /\ UNCHANGED <<hothers, evars>>
    /\ hpc = "loop"
    /\ event_idx = Len(events_info)
    /\ \/ /\ file_exists' = FALSE
          /\ hpc' = "done"
          /\ hexit' = "returned"
       \/ HandlerFailed
    /\ UNCHANGED <<events_info, event_idx, created_events, errors, calendar, db_events,
                   create_calls, notifications>>

NextVoice ==
    \/ Acknowledge
    \/ Download
    \/ Transcribe
    \/ CallModel
    \/ RemoveFences
    \/ ParseResponse
    \/ ProcessEvent
    \/ ReturnBatch
    \/ GetCalendar
    \/ CreateOne
    \/ Reply

\* the handler of a specification that does not run it
HIdle ==
    /\ hpc = "idle"
    /\ file_exists = FALSE
    /\ events_info = <<>>
    /\ event_idx = 0
    /\ created_events = <<>>
    /\ errors = <<>>
    /\ calendar = <<>>
    /\ db_events = <<>>
    /\ create_calls = <<>>
    /\ notifications = {}
    /\ hexit = "none"

-----------------------------------------------------------------------------
(* Two extractions at once: each runs _try_models_with_fallback in a thread *)
(* of the default executor (line 212), on the one NLUService of bot.py      *)

Threads == {"a", "b"}

ThreadStart == [pc |-> "order", order |-> <<>>, k |-> 0, local |-> None, tried |-> <<>>]

\* both threads are about to start; the service was constructed and earlier
\* extractions may have moved the cursor
RInit ==
    /\ \E m \in Candidates : model = m /\ model_name = m
    /\ th = [t \in Threads |-> ThreadStart]

\* the loop variable model_name of thread t
Candidate(t) == th[t].order[th[t].k + 1]

\* lines 148-158
RaceBuildOrder ==
    /\ UNCHANGED <<rothers, model, model_name>>
    /\ \E t \in Threads :
         /\ th[t].pc = "order"
         /\ th' = [th EXCEPT ![t].order = ModelsToTry(model_name), ![t].pc = "compare"]

\* lines 159-162: the next candidate, and `if model_name != self.model_name`;
\* line 192 when the list is exhausted
RaceCompare ==
    /\ UNCHANGED <<rothers, model, model_name>>
    /\ \E t \in Threads :
         /\ th[t].pc = "compare"
         /\ th' = [th EXCEPT ![t].pc =
                      IF th[t].k = Len(th[t].order) THEN "failed"
                      ELSE IF Candidate(t) # model_name THEN "construct" ELSE "take"]

\* lines 164-170: a client object for the candidate, or the constructor raises
RaceConstruct ==
    /\ UNCHANGED <<rothers, model, model_name>>
    /\ \E t \in Threads, built \in BOOLEAN :
         /\ th[t].pc = "construct"
         /\ th' = IF built
                  THEN [th EXCEPT ![t].local = Candidate(t), ![t].pc = "request"]
                  ELSE [th EXCEPT ![t].tried = Append(@, [name |-> Candidate(t),
                                                          how |-> "construct",
                                                          to |-> None]),
                                  ![t].k = @ + 1,
                                  ![t].pc = "compare"]

\* line 172: model = self.model
RaceTake ==
    /\ UNCHANGED <<rothers, model, model_name>>
    /\ \E t \in Threads :
         /\ th[t].pc = "take"
         /\ th' = [th EXCEPT ![t].local = model, ![t].pc = "request"]

\* lines 175-176 and 186-189: the request goes to the model the client
\* object was built for
RaceRequest ==
    /\ UNCHANGED <<rothers, model, model_name>>
    /\ \E t \in Threads, answered \in BOOLEAN :
         /\ th[t].pc = "request"
         /\ LET entry == [name |-> Candidate(t), how |-> "request", to |-> th[t].local]
            IN  th' = IF answered
                      THEN [th EXCEPT ![t].tried = Append(@, entry), ![t].pc = "compare2"]
                      ELSE [th EXCEPT ![t].tried = Append(@, entry),
                                      ![t].k = @ + 1,
                                      ![t].pc = "compare"]

\* lines 179 and 184
RaceCompareAgain ==
    /\ UNCHANGED <<rothers, model, model_name>>
    /\ \E t \in Threads :
         /\ th[t].pc = "compare2"
         /\ th' = [th EXCEPT ![t].pc =
                      IF Candidate(t) # model_name THEN "set_model" ELSE "returned"]

\* line 180
RaceSetModel ==
    /\ UNCHANGED <<rothers, model_name>>
    /\ \E t \in Threads :
         /\ th[t].pc = "set_model"
         /\ model' = th[t].local
         /\ th' = [th EXCEPT ![t].pc = "set_name"]

\* lines 181-184
RaceSetName ==
    /\ UNCHANGED <<rothers, model>>
    /\ \E t \in Threads :
         /\ th[t].pc = "set_name"
         /\ model_name' = Candidate(t)
         /\ th' = [th EXCEPT ![t].pc = "returned"]

NextRace ==
    \/ RaceBuildOrder
    \/ RaceCompare
    \/ RaceConstruct
    \/ RaceTake
    \/ RaceRequest
    \/ RaceCompareAgain
    \/ RaceSetModel
    \/ RaceSetName

\* no thread runs
RIdle == th = [t \in Threads |-> [ThreadStart EXCEPT !.pc = "idle"]]

\* the parts of NLUService the threads do not touch
NRest ==
    /\ npc = "idle"
    /\ models_to_try = <<>>
    /\ k = 0
    /\ last_error = NoError
    /\ tried = <<>>
    /\ start_cursor = None
    /\ failure = NoFailure
    /\ extractions = 0

-----------------------------------------------------------------------------
(* Two transcribe_voice calls at once, both on the chunked path.  handle_voice *)
(* downloads every clip into temp/, so temp_dir (line 469) is temp/chunks for  *)
(* both calls and chunk_{i}.ogg (line 488) is one path for both.  Coroutines   *)
(* take turns at their awaits; ffmpeg and the aiofiles worker write from       *)
(* outside the event loop.                                                     *)

Calls == {"a", "b"}
NoFile == "none"
ChunkIndexes == 0..(WindowsPerCall - 1)

CallStart == [pc |-> "start", i |-> 0, data |-> NoFile, texts |-> <<>>,
              failed |-> FALSE, exit |-> "none"]

FInit ==
    /\ rq = [r \in Calls |-> CallStart]
    /\ chunks_dir = [exists |-> FALSE, creator |-> NoFile]
    /\ chunk_files = [j \in ChunkIndexes |-> NoFile]
    /\ harm = {}

\* the event loop is not inside a synchronous shutil.rmtree
LoopFree == \A r \in Calls : rq[r].pc # "rmdir"

\* the entry recorded when call r touches storage that holds another call's
\* audio
Touch(r, kind, owner) ==
    IF owner \notin {NoFile, r} THEN {[by |-> r, kind |-> kind, of |-> owner]} ELSE {}

\* os.remove(chunk_path) in a try/except (lines 500-503, 513-516, 532-536)
RemoveChunk(r) ==
    /\ chunk_files' = [chunk_files EXCEPT ![rq[r].i] = NoFile]
    /\ harm' = harm \cup Touch(r, "delete", chunk_files[rq[r].i])

\* `continue`, or the end of the loop body
NextWindow(r, call) == [call EXCEPT !.i = @ + 1, !.pc = "split", !.data = NoFile]

\* lines 468-472: os.makedirs(temp_dir, exist_ok=True)
TempEnter ==
    /\ UNCHANGED fothers
    /\ LoopFree
    /\ \E r \in Calls :
         /\ rq[r].pc = "start"
         /\ chunks_dir' = IF chunks_dir.exists THEN chunks_dir
                          ELSE [exists |-> TRUE, creator |-> r]
         /\ rq' = [rq EXCEPT ![r].pc = "split"]
    /\ UNCHANGED <<chunk_files, harm>>

\* lines 479-491: the loop head; _split_audio_file starts its writer
TempSplitStart ==
    /\ UNCHANGED fothers
    /\ LoopFree
    /\ \E r \in Calls :
         /\ rq[r].pc = "split"
         /\ rq' = [rq EXCEPT ![r].pc = IF rq[r].i = WindowsPerCall THEN "finish"
                                       ELSE "splitting"]
    /\ UNCHANGED <<chunks_dir, chunk_files, harm>>

\* lines 263-268 and 224-225: ffmpeg -y, or the aiofiles worker, writes
\* chunk_{i}.ogg; nothing is written when the directory is gone or the
\* splitter fails
TempSplitWrite ==
    /\ UNCHANGED fothers
    /\ \E r \in Calls, works \in BOOLEAN :
         /\ rq[r].pc = "splitting"
         /\ rq' = [rq EXCEPT ![r].pc = "split_check"]
         /\ IF works /\ chunks_dir.exists
            THEN /\ chunk_files' = [chunk_files EXCEPT ![rq[r].i] = r]
                 /\ harm' = harm \cup Touch(r, "overwrite", chunk_files[rq[r].i])
            ELSE UNCHANGED <<chunk_files, harm>>
    /\ UNCHANGED chunks_dir

\* lines 270-273, 228-230 and 492-504: os.path.exists(output_path) decides
\* success; a chunk over max_size is removed and skipped
TempSplitCheck ==
    /\ UNCHANGED fothers
    /\ LoopFree
    /\ \E r \in Calls, too_big \in BOOLEAN :
         /\ rq[r].pc = "split_check"
         /\ IF chunk_files[rq[r].i] = NoFile
            THEN /\ rq' = [rq EXCEPT ![r] = NextWindow(r, @)]
                 /\ UNCHANGED <<chunk_files, harm>>
            ELSE IF too_big
            THEN /\ rq' = [rq EXCEPT ![r] = NextWindow(r, @)]
                 /\ RemoveChunk(r)
            ELSE /\ rq' = [rq EXCEPT ![r].pc = "measure"]
                 /\ UNCHANGED <<chunk_files, harm>>
    /\ UNCHANGED chunks_dir

\* lines 506-517: _get_audio_duration(chunk_path) returns after an await.
\* If the file is gone, ffprobe either ran before it went, or fails, and
\* then os.path.getsize (lines 107 and 128) raises FileNotFoundError out of
\* the loop
TempMeasure ==
    /\ UNCHANGED fothers
    /\ LoopFree
    /\ \E r \in Calls, choice \in BOOLEAN :
         /\ rq[r].pc = "measure"
         /\ IF chunk_files[rq[r].i] = NoFile
            THEN /\ rq' = IF choice
                          THEN [rq EXCEPT ![r].pc = "finish", ![r].failed = TRUE]
                          ELSE [rq EXCEPT ![r].pc = "read"]
                 /\ UNCHANGED <<chunk_files, harm>>
            ELSE IF choice
            THEN /\ rq' = [rq EXCEPT ![r] = NextWindow(r, @)]
                 /\ RemoveChunk(r)
            ELSE /\ rq' = [rq EXCEPT ![r].pc = "read"]
                 /\ UNCHANGED <<chunk_files, harm>>
    /\ UNCHANGED chunks_dir

\* lines 520-522: the chunk file is read; a missing file raises into the
\* except of line 528
TempRead ==
    /\ UNCHANGED fothers
    /\ LoopFree
    /\ \E r \in Calls :
         /\ rq[r].pc = "read"
         /\ IF chunk_files[rq[r].i] = NoFile
            THEN /\ rq' = [rq EXCEPT ![r] = NextWindow(r, @)]
                 /\ UNCHANGED harm
            ELSE /\ rq' = [rq EXCEPT ![r].data = chunk_files[rq[r].i], ![r].pc = "request"]
                 /\ harm' = harm \cup Touch(r, "read", chunk_files[rq[r].i])
    /\ UNCHANGED <<chunks_dir, chunk_files>>

\* lines 524-536: _transcribe_chunk on the bytes read, then os.remove
TempRequest ==
    /\ UNCHANGED fothers
    /\ LoopFree
    /\ \E r \in Calls, heard_text \in BOOLEAN :
         /\ rq[r].pc = "request"
         /\ rq' = [rq EXCEPT ![r] =
                      NextWindow(r, [@ EXCEPT !.texts =
                          IF heard_text
                          THEN Append(@, [audio |-> rq[r].data, idx |-> rq[r].i])
                          ELSE @])]
         /\ RemoveChunk(r)
    /\ UNCHANGED chunks_dir

\* how the call ends: lines 538-544, or the exception that left the loop
ExitOf(call) == IF call.failed \/ call.texts = <<>> THEN "raised" ELSE "returned"

\* lines 546-549: shutil.rmtree(temp_dir) unlinks the entries it listed
TempFinish ==
    /\ UNCHANGED fothers
    /\ LoopFree
    /\ \E r \in Calls :
         /\ rq[r].pc = "finish"
         /\ IF chunks_dir.exists
            THEN /\ rq' = [rq EXCEPT ![r].pc = "rmdir"]
                 /\ chunk_files' = [j \in ChunkIndexes |-> NoFile]
                 /\ harm' = harm \cup UNION {Touch(r, "delete", chunk_files[j]) :
                                               j \in ChunkIndexes}
            ELSE /\ rq' = [rq EXCEPT ![r].pc = "done", ![r].exit = ExitOf(rq[r])]
                 /\ UNCHANGED <<chunk_files, harm>>
    /\ UNCHANGED chunks_dir

\* lines 549-552: rmtree's final rmdir; it raises when a file has appeared
\* since the listing, and `except: pass` swallows that
TempRmdir ==
    /\ UNCHANGED fothers
    /\ \E r \in Calls :
         /\ rq[r].pc = "rmdir"
         /\ rq' = [rq EXCEPT ![r].pc = "done", ![r].exit = ExitOf(rq[r])]
         /\ IF \A j \in ChunkIndexes : chunk_files[j] = NoFile
            THEN /\ chunks_dir' = [exists |-> FALSE, creator |-> NoFile]
                 /\ harm' = harm \cup
                       UNION {IF rq[o].pc \notin {"start", "done"}
                              THEN Touch(r, "rmdir", o) ELSE {} : o \in Calls}
            ELSE UNCHANGED <<chunks_dir, harm>>
    /\ UNCHANGED chunk_files

NextTemp ==
    \/ TempEnter
    \/ TempSplitStart
    \/ TempSplitWrite
    \/ TempSplitCheck
    \/ TempMeasure
    \/ TempRead
    \/ TempRequest
    \/ TempFinish
    \/ TempRmdir

\* no call runs
FIdle ==
    /\ rq = [r \in Calls |-> [CallStart EXCEPT !.pc = "idle"]]
    /\ chunks_dir = [exists |-> FALSE, creator |-> NoFile]
    /\ chunk_files = [j \in ChunkIndexes |-> NoFile]
    /\ harm = {}

-----------------------------------------------------------------------------
(* The specifications *)

-----------------------------------------------------------------------------
(* SpecCache: handlers of one user calling get_user_calendar_service and   *)
(* save_user_credentials of bot.py; a handler gives way to the others at   *)
(* each await                                                              *)

Handlers == {"a", "b"}
MaxCalls == 3

NoCreds == 0
\* the credential pairs a user may save, and the pair of Config
Creds == {1, 2}
ConfigCreds == 3

NoService == [creds |-> NoCreds, connected |-> FALSE]
KRest == [pc |-> "idle", arg |-> NoCreds, read |-> NoCreds]

KInit ==
    /\ user_calendar_services = NoService
    /\ credentials_row \in {NoCreds} \cup Creds
    /\ config_credentials \in BOOLEAN
    /\ kt = [t \in Handlers |-> KRest]
    /\ kcalls = 0

\* YandexCalendarService(...) (calendar_service.py, lines 14-27): the object,
\* unless _connect raises ValueError
NewService(creds, connects) ==
    IF connects THEN [creds |-> creds, connected |-> TRUE] ELSE NoService

\* reconnect (calendar_service.py, lines 58-64): the fields are assigned
\* before _connect runs
Reconnect(creds, connects) == [creds |-> creds, connected |-> connects]

\* get_user_calendar_service, lines 45-47: a cached service is returned at
\* once, else the credentials are requested from the database
GetService(t) ==
    /\ UNCHANGED <<tvars, cvars, nvars, evars, hvars, rvars, fvars, sp, uvars, qvars, dvars>>
    /\ kt[t].pc = "idle"
    /\ kcalls < MaxCalls
    /\ kcalls' = kcalls + 1
    /\ kt' = [kt EXCEPT ![t].pc = IF user_calendar_services = NoService
                                  THEN "read" ELSE "idle"]
    /\ UNCHANGED <<user_calendar_services, credentials_row, config_credentials>>

\* line 47: get_user_credentials answers (or raises)
ReadCredentials(t) ==
    /\ UNCHANGED <<tvars, cvars, nvars, evars, hvars, rvars, fvars, sp, uvars, qvars, dvars>>
    /\ kt[t].pc = "read"
    /\ \E ok \in BOOLEAN :
         kt' = [kt EXCEPT ![t] = IF ok THEN [pc |-> "build", arg |-> NoCreds,
                                              read |-> credentials_row]
                                 ELSE KRest]
    /\ UNCHANGED <<user_calendar_services, credentials_row, config_credentials, kcalls>>

\* lines 49-62: the handler runs on with what it read
BuildService(t) ==
    /\ UNCHANGED <<tvars, cvars, nvars, evars, hvars, rvars, fvars, sp, uvars, qvars, dvars>>
    /\ kt[t].pc = "build"
    /\ \E connects \in BOOLEAN :
         user_calendar_services' =
            IF kt[t].read # NoCreds
            THEN IF connects THEN NewService(kt[t].read, TRUE) ELSE user_calendar_services
            ELSE IF config_credentials /\ connects THEN NewService(ConfigCreds, TRUE)
            ELSE user_calendar_services
    /\ kt' = [kt EXCEPT ![t] = KRest]
    /\ UNCHANGED <<credentials_row, config_credentials, kcalls>>

\* save_user_credentials, line 66: the call of the database function
SaveCredentials(t) ==
    /\ UNCHANGED <<tvars, cvars, nvars, evars, hvars, rvars, fvars, sp, uvars, qvars, dvars>>
    /\ kt[t].pc = "idle"
    /\ kcalls < MaxCalls
    /\ kcalls' = kcalls + 1
    /\ \E c \in Creds : kt' = [kt EXCEPT ![t] = [pc |-> "write", arg |-> c, read |-> NoCreds]]
    /\ UNCHANGED <<user_calendar_services, credentials_row, config_credentials>>

\* database.save_user_credentials writes the row (or raises)
WriteCredentials(t) ==
    /\ UNCHANGED <<tvars, cvars, nvars, evars, hvars, rvars, fvars, sp, uvars, qvars, dvars>>
    /\ kt[t].pc = "write"
    /\ \E ok \in BOOLEAN :
         IF ok
         THEN /\ credentials_row' = kt[t].arg
              /\ kt' = [kt EXCEPT ![t].pc = "refresh"]
         ELSE /\ kt' = [kt EXCEPT ![t] = KRest]
              /\ UNCHANGED credentials_row
    /\ UNCHANGED <<user_calendar_services, config_credentials, kcalls>>

\* lines 68-75: the handler runs on after the await of line 66
RefreshService(t) ==
    /\ UNCHANGED <<tvars, cvars, nvars, evars, hvars, rvars, fvars, sp, uvars, qvars, dvars>>
    /\ kt[t].pc = "refresh"
    /\ \E connects \in BOOLEAN :
         user_calendar_services' =
            IF user_calendar_services # NoService
            THEN Reconnect(kt[t].arg, connects)
            ELSE IF connects THEN NewService(kt[t].arg, TRUE) ELSE user_calendar_services
    /\ kt' = [kt EXCEPT ![t] = KRest]
    /\ UNCHANGED <<credentials_row, config_credentials, kcalls>>

NextCache ==
    \E t \in Handlers :
        \/ GetService(t)
        \/ ReadCredentials(t)
        \/ BuildService(t)
        \/ SaveCredentials(t)
        \/ WriteCredentials(t)
        \/ RefreshService(t)

\* the services of a specification that does not run them
KIdle ==
    /\ user_calendar_services = NoService
    /\ credentials_row = NoCreds
    /\ config_credentials = FALSE
    /\ kt = [t \in Handlers |-> KRest]
    /\ kcalls = 0

-----------------------------------------------------------------------------
(* SpecSetup: handle_text of bot.py, one message after the other *)

Users == {"u1", "u2"}
Emails == {"e1", "e2"}
Passwords == {"p1", "p2"}
MaxMessages == 3

NoEmail == "no email"
NoPassword == "no password"
NoRow == [yandex_user |-> NoEmail, yandex_password |-> NoPassword]
NoMessage == [user |-> "nobody", email |-> NoEmail, password |-> NoPassword,
              pending |-> NoEmail, did |-> "nothing"]

\* what extract_credentials_from_text returns for a message (line 437)
Extracted == (Emails \cup {NoEmail}) \X (Passwords \cup {NoPassword})

\* save_user_credentials of bot.py (lines 64-75) returns, or raises before
\* the row is written (line 66), or raises after it: the calendar service
\* of lines 68-75 does not connect
SaveOutcomes == {"saved", "database error", "connect error"}

\* the user's row after the call
RowAfter(row, email, password, outcome) ==
    IF outcome = "database error" THEN row
    ELSE [yandex_user |-> email, yandex_password |-> password]

\* user_setup_state.pop(user_id, None) (lines 457 and 470)
Pop(entry) == NoEmail

\* lines 455-457 and 469-470: save_user_credentials, then the pop, which an
\* exception skips
PendingAfterSave(entry, outcome) == IF outcome = "saved" THEN Pop(entry) ELSE entry

UInit ==
    /\ user_setup_state = [u \in Users |-> NoEmail]
    /\ urows \in [Users -> {NoRow, [yandex_user |-> "e1", yandex_password |-> "p1"]}]
    /\ handled = NoMessage
    /\ umsgs = 0

\* lines 430-510: one text message of user u
HandleText ==
    /\ UNCHANGED <<tvars, cvars, nvars, evars, hvars, rvars, fvars, sp, kvars, qvars, dvars>>
    /\ umsgs < MaxMessages
    /\ umsgs' = umsgs + 1
    /\ \E u \in Users, x \in Extracted, outcome \in SaveOutcomes :
         LET email == x[1]
             password == x[2]
             pending == user_setup_state[u]
             note(did) == [user |-> u, email |-> email, password |-> password,
                           pending |-> pending, did |-> did]
         IN  CASE email # NoEmail /\ password = NoPassword ->
                    /\ user_setup_state' = [user_setup_state EXCEPT ![u] = email]
                    /\ handled' = note("kept email")
                    /\ UNCHANGED urows
               [] email # NoEmail /\ password # NoPassword ->
                    /\ urows' = [urows EXCEPT ![u] = RowAfter(@, email, password, outcome)]
                    /\ user_setup_state' =
                          [user_setup_state EXCEPT ![u] = PendingAfterSave(@, outcome)]
                    /\ handled' = note(outcome)
               [] email = NoEmail /\ password # NoPassword /\ pending # NoEmail ->
                    /\ urows' = [urows EXCEPT ![u] = RowAfter(@, pending, password, outcome)]
                    /\ user_setup_state' =
                          [user_setup_state EXCEPT ![u] = PendingAfterSave(@, outcome)]
                    /\ handled' = note(outcome)
               [] email = NoEmail /\ password # NoPassword /\ pending = NoEmail ->
                    IF urows[u] # NoRow
                    THEN /\ urows' = [urows EXCEPT
                                        ![u] = RowAfter(@, @.yandex_user, password, outcome)]
                         /\ handled' = note(outcome)
                         /\ UNCHANGED user_setup_state
                    ELSE /\ handled' = note("no email")
                         /\ UNCHANGED <<urows, user_setup_state>>
               [] OTHER ->
                    /\ handled' = note("not credentials")
                    /\ UNCHANGED <<urows, user_setup_state>>

NextSetup == HandleText

\* the setup state of a specification that does not run handle_text
UIdle ==
    /\ user_setup_state = [u \in Users |-> NoEmail]
    /\ urows = [u \in Users |-> NoRow]
    /\ handled = NoMessage
    /\ umsgs = 0

-----------------------------------------------------------------------------
(* SpecSched: the job check_and_send_notifications of scheduler.py, run by  *)
(* start_scheduler once a minute                                           *)

Rows == {1, 2}
MaxClock == 4

\* the instants of the rows, in minutes
RowTimes == {1, 3}

\* IntervalTrigger(minutes=1)
POLL_MINUTES == 1
\* check_time = now + timedelta(minutes=2)
LOOK_AHEAD == 2
\* now - timedelta(minutes=1)
LOOK_BACK == 1

QRest == [pc |-> "idle", todo |-> <<>>]

QInit ==
    /\ nrows \in [Rows -> [at : RowTimes, sent : {FALSE}, event : BOOLEAN]]
    /\ deliveries = [n \in Rows |-> 0]
    /\ sclock = 0
    /\ srun = QRest

\* the where clause of lines 50-56
Due(row, t) == ~row.sent /\ row.at <= t + LOOK_AHEAD /\ row.at >= t - LOOK_BACK

RECURSIVE Listed(_, _)
\* the rows of the query in a list
Listed(S, t) ==
    IF S = {} THEN <<>>
    ELSE LET n == CHOOSE m \in S : \A o \in S : m <= o
         IN  (IF Due(nrows[n], t) THEN <<n>> ELSE <<>>) \o Listed(S \ {n}, t)

\* lines 43-59: the job starts and reads the due rows (or the query raises)
StartRun ==
    /\ UNCHANGED <<tvars, cvars, nvars, evars, hvars, rvars, fvars, sp, kvars, uvars, dvars>>
    /\ srun.pc = "idle"
    /\ sclock < MaxClock
    /\ \E ok \in BOOLEAN :
         srun' = IF ok THEN [pc |-> "loop", todo |-> Listed(Rows, sclock)]
                 ELSE [pc |-> "loop", todo |-> <<>>]
    /\ UNCHANGED <<nrows, deliveries, sclock>>

\* session.commit() (line 92) returns, or raises and the row keeps sent = False
CommitOutcomes == {"committed", "raised"}

\* lines 61-98: one row of the list
SendOne ==
    /\ UNCHANGED <<tvars, cvars, nvars, evars, hvars, rvars, fvars, sp, kvars, uvars, dvars>>
    /\ srun.pc = "loop"
    /\ srun.todo # <<>>
    /\ LET n == Head(srun.todo)
       IN  \E delivered \in BOOLEAN, commit \in CommitOutcomes :
             IF ~nrows[n].event
             THEN UNCHANGED <<nrows, deliveries>>
             ELSE /\ deliveries' = IF delivered THEN [deliveries EXCEPT ![n] = @ + 1]
                                   ELSE deliveries
                  /\ nrows' = IF delivered /\ commit = "committed"
                              THEN [nrows EXCEPT ![n].sent = TRUE]
                              ELSE nrows
    /\ srun' = [srun EXCEPT !.todo = Tail(@)]
    /\ UNCHANGED sclock

\* the job is over; the next one starts a minute later
EndRun ==
    /\ UNCHANGED <<tvars, cvars, nvars, evars, hvars, rvars, fvars, sp, kvars, uvars, dvars>>
    /\ srun.pc = "loop"
    /\ srun.todo = <<>>
    /\ srun' = QRest
    /\ sclock' = sclock + POLL_MINUTES
    /\ UNCHANGED <<nrows, deliveries>>

NextSched ==
    \/ StartRun
    \/ SendOne
    \/ EndRun

\* the job of a specification that does not run it
QIdle ==
    /\ nrows = [n \in Rows |-> [at |-> 1, sent |-> FALSE, event |-> FALSE]]
    /\ deliveries = [n \in Rows |-> 0]
    /\ sclock = 0
    /\ srun = QRest

-----------------------------------------------------------------------------
(* SpecUpsert: calls of database.save_user_credentials for one             *)
(* telegram_user_id; a call gives way to the others at each await          *)

Callers == {"a", "b"}
MaxSaves == 3

DRest == [pc |-> "idle", arg |-> NoCreds, existing |-> FALSE, exit |-> "none"]

\* init_db (lines 83-92): the table, with no row for the user or one
DInit ==
    /\ user_credentials \in {{}} \cup {{c} : c \in Creds}
    /\ dcall = [t \in Callers |-> DRest]
    /\ dsaved = {}
    /\ dcalls = 0

\* lines 195-196: the call with its values
BeginSave(t) ==
    /\ UNCHANGED <<tvars, cvars, nvars, evars, hvars, rvars, fvars, sp, kvars, uvars,
                   qvars>>
    /\ dcall[t].pc = "idle"
    /\ dcalls < MaxSaves
    /\ dcalls' = dcalls + 1
    /\ \E c \in Creds :
         /\ dcall' = [dcall EXCEPT ![t] = [pc |-> "select", arg |-> c, existing |-> FALSE,
                                     exit |-> "none"]]
         /\ dsaved' = dsaved \cup {c}
    /\ UNCHANGED user_credentials

\* line 197: existing = await get_user_credentials(telegram_user_id)
SelectExisting(t) ==
    /\ UNCHANGED <<tvars, cvars, nvars, evars, hvars, rvars, fvars, sp, kvars, uvars,
                   qvars>>
    /\ dcall[t].pc = "select"
    /\ dcall' = [dcall EXCEPT ![t].pc = "write", ![t].existing = user_credentials # {}]
    /\ UNCHANGED <<user_credentials, dsaved, dcalls>>

\* UPDATE ... WHERE telegram_user_id = $3 (lines 199-203)
Update(rows, c) == {c : r \in rows}

\* INSERT (lines 205-208) into a table whose telegram_user_id is UNIQUE
\* (line 86): refused when the user has a row
Insert(rows, c) ==
    IF rows # {} THEN [ok |-> FALSE, rows |-> rows] ELSE [ok |-> TRUE, rows |-> {c}]

\* lines 198-208: the statement the call chose from what it read
WriteRow(t) ==
    /\ UNCHANGED <<tvars, cvars, nvars, evars, hvars, rvars, fvars, sp, kvars, uvars,
                   qvars>>
    /\ dcall[t].pc = "write"
    /\ IF dcall[t].existing
       THEN /\ user_credentials' = Update(user_credentials, dcall[t].arg)
            /\ dcall' = [dcall EXCEPT ![t].pc = "idle", ![t].exit = "returned"]
       ELSE LET got == Insert(user_credentials, dcall[t].arg)
            IN  /\ user_credentials' = got.rows
                /\ dcall' = [dcall EXCEPT ![t].pc = "idle",
                                    ![t].exit = IF got.ok THEN "returned" ELSE "raised"]
    /\ UNCHANGED <<dsaved, dcalls>>

NextUpsert ==
    \E t \in Callers :
        \/ BeginSave(t)
        \/ SelectExisting(t)
        \/ WriteRow(t)

\* the table of a specification that does not run these calls
DIdle ==
    /\ user_credentials = {}
    /\ dcall = [t \in Callers |-> DRest]
    /\ dsaved = {}
    /\ dcalls = 0

-----------------------------------------------------------------------------

\* what a specification leaves idle besides its own part
SIdle == SpIdle /\ KIdle /\ UIdle /\ QIdle /\ DIdle

Init == TInit /\ tc = TcInit /\ NIdle /\ EIdle /\ HIdle /\ RIdle /\ FIdle /\ SIdle

Spec == Init /\ [][TNext]_vars

InitChunk == TIdle /\ tc = TcInit /\ NIdle /\ EIdle /\ HIdle /\ RIdle /\ FIdle /\ SIdle

NextChunk == ChunkAttempt

SpecChunk == InitChunk /\ [][NextChunk]_vars

InitNLU == TIdle /\ tc = TcInit /\ NInit /\ EIdle /\ HIdle /\ RIdle /\ FIdle /\ SIdle

SpecNLU == InitNLU /\ [][NextNLU]_vars

InitExtract == TIdle /\ tc = TcInit /\ NIdle /\ EInit /\ HIdle /\ RIdle /\ FIdle /\ SIdle

SpecExtract == InitExtract /\ [][NextExtract]_vars

InitVoice == TIdle /\ tc = TcInit /\ NIdle /\ EIdle /\ HInit /\ RIdle /\ FIdle /\ SIdle

SpecVoice == InitVoice /\ [][NextVoice]_vars

InitRace == TIdle /\ tc = TcInit /\ NRest /\ EIdle /\ HIdle /\ RInit /\ FIdle /\ SIdle

SpecRace == InitRace /\ [][NextRace]_vars

InitTemp == TIdle /\ tc = TcInit /\ NIdle /\ EIdle /\ HIdle /\ RIdle /\ FInit /\ SIdle

SpecTemp == InitTemp /\ [][NextTemp]_vars

\* one call of _split_audio_file_by_bytes on any file, offset and length
InitSplit ==
    TIdle /\ tc = TcInit /\ NIdle /\ EIdle /\ HIdle /\ RIdle /\ FIdle /\ SInit /\ KIdle
    /\ UIdle /\ QIdle /\ DIdle

SpecSplit == InitSplit /\ [][NextSplit]_vars

InitCache ==
    TIdle /\ tc = TcInit /\ NIdle /\ EIdle /\ HIdle /\ RIdle /\ FIdle /\ SpIdle /\ KInit
    /\ UIdle /\ QIdle /\ DIdle

SpecCache == InitCache /\ [][NextCache]_vars

InitSetup ==
    TIdle /\ tc = TcInit /\ NIdle /\ EIdle /\ HIdle /\ RIdle /\ FIdle /\ SpIdle /\ KIdle
    /\ UInit /\ QIdle /\ DIdle

SpecSetup == InitSetup /\ [][NextSetup]_vars

InitSched ==
    TIdle /\ tc = TcInit /\ NIdle /\ EIdle /\ HIdle /\ RIdle /\ FIdle /\ SpIdle /\ KIdle
    /\ UIdle /\ QInit /\ DIdle

SpecSched == InitSched /\ [][NextSched]_vars

InitUpsert ==
    TIdle /\ tc = TcInit /\ NIdle /\ EIdle /\ HIdle /\ RIdle /\ FIdle /\ SpIdle /\ KIdle
    /\ UIdle /\ QIdle /\ DInit

SpecUpsert == InitUpsert /\ [][NextUpsert]_vars

-----------------------------------------------------------------------------
(* Properties of transcribe_voice (Spec) *)

\* the clip is within both provider limits, stated on the inputs
SmallClip ==
    /\ clip.size <= max_size
    /\ IF clip.measured > 0
       THEN clip.measured <= DURATION_LIMIT
       ELSE clip.size <= DURATION_LIMIT * ESTIMATE_BYTES_PER_SECOND

Finished == pc \in {"returned", "raised"}

\* the calls of _transcribe_chunk that returned a non-empty text
NonEmptyHeard == {j \in 1..Len(heard) : Strip(heard[j].raw) # <<>>}

\* the text t occurs in s
Occurs(t, s) == \E off \in 0..(Len(s) - Len(t)) : SubSeq(s, off + 1, off + Len(t)) = t

\* the smallest integer n with n * b >= a, for rationals a >= 0 and b > 0
CeilDiv(a, b) ==
    LET q == RDiv(a, b) IN (q.n + q.d - 1) \div q.d

\* C1 as claimed: a clip within both limits costs exactly one provider
\* request whatever the provider answers, and a success returns that
\* response's text trimmed.
C1_ExactlyOneRequest ==
    (SmallClip /\ Finished) =>
        /\ requests = 1
        /\ pc = "returned" => result = Strip(heard[Len(heard)].raw)

\* C1 amended: a clip within both limits is never split; it costs one call of
\* _transcribe_chunk, that is one provider request unless the first answer is
\* retried and never more than max_retries requests; a success returns the
\* text of the last response, trimmed and otherwise unmodified.
C1_SingleCall ==
    (SmallClip /\ pc # "start") =>
        /\ pc \in {"single", "returned", "raised"}
        /\ windows = <<>> /\ ~temp_dir
        /\ requests <= max_retries
        /\ Finished => /\ requests >= 1
                       /\ ~first_retried => requests = 1
        /\ pc = "returned" => /\ Len(heard) = 1
                              /\ result = Strip(heard[1].raw)
                              /\ result # <<>>

\* C1 witness: a small clip answered with padded text on the first request
C1_Witness ==
    /\ SmallClip /\ pc = "returned" /\ requests = 1
    /\ heard[1].raw = <<SPACE, "w">> /\ result = <<"w">>

\* C2: transcribe_voice raises if and only if no call of _transcribe_chunk
\* returned a non-empty text, in the single path and in the chunked path.
C2_RaisesIffNoText ==
    Finished => (pc = "raised" <=> NonEmptyHeard = {})

\* C2 witness: the chunked path returns although one chunk gave no text
C2_Witness ==
    /\ ~SmallClip /\ pc = "returned"
    /\ Len(windows) >= 2 /\ Cardinality(NonEmptyHeard) = 1

\* C3: a window that cannot be split, is skipped or whose call raises does
\* not stop the loop: every window of the clip is handed to the splitter, and
\* every non-empty text a chunk's call returned is in chunks_texts and occurs
\* in the returned transcript.
C3_ChunksIndependent ==
    /\ (~SmallClip /\ pc \in {"finish", "returned", "raised"}) =>
          {windows[j].idx : j \in 1..Len(windows)}
              = 0..(CeilDiv(total_duration, chunk_duration) - 1)
    /\ \A j \in NonEmptyHeard :
          /\ heard[j].idx >= 0 =>
                \E n \in 1..Len(chunks_texts) : chunks_texts[n] = Strip(heard[j].raw)
          /\ pc = "returned" => Occurs(Strip(heard[j].raw), result)

\* C3 witness: three windows, the middle one gave nothing after three
\* provider requests or a failed split, its neighbours are in the transcript
C3_Witness ==
    /\ pc = "returned" /\ Len(windows) = 3
    /\ {heard[j].idx : j \in NonEmptyHeard} = {0, 2}
    /\ Occurs(<<"0">>, result) /\ Occurs(<<"2">>, result)

\* the non-empty trimmed texts of h, in the order of h, one space between
RECURSIVE ExpectedTranscript(_)
ExpectedTranscript(h) ==
    IF h = <<>> THEN <<>>
    ELSE LET t == Strip(Head(h).raw)
             rest == ExpectedTranscript(Tail(h))
         IN  IF t = <<>> THEN rest
             ELSE IF rest = <<>> THEN t
             ELSE t \o <<SPACE>> \o rest

\* C4: the transcript of the chunked path is the non-empty texts of the
\* chunks whose call returned, in increasing window order, each window at
\* most once, joined by exactly one space.
C4_TranscriptInWindowOrder ==
    /\ \A a, b \in 1..Len(heard) : a < b => heard[a].idx < heard[b].idx
    /\ (~SmallClip /\ pc = "returned") => result = ExpectedTranscript(heard)

\* C4 witness: two chunk texts, returned with padding, and an empty one
C4_Witness ==
    /\ ~SmallClip /\ pc = "returned"
    /\ Len(heard) = 3 /\ Cardinality(NonEmptyHeard) = 2
    /\ \E j \in NonEmptyHeard : heard[j].raw # Strip(heard[j].raw)

\* the windows handed to the splitter so far start at 0 and follow one
\* another with no gap and no overlap
WindowsConsecutive ==
    /\ \A j \in 1..Len(windows) :
          /\ windows[j].idx = j - 1
          /\ RLess(RInt(0), windows[j].len)
    /\ windows # <<>> => windows[1].start = RInt(0)
    /\ \A j \in 1..(Len(windows) - 1) :
          RSub(windows[j + 1].start, windows[j].start) = windows[j].len

\* once the loop is over the windows are ceil(total / chunk) and end at the
\* total duration
WindowsCover ==
    (~SmallClip /\ pc \in {"finish", "returned", "raised"}) =>
        /\ Len(windows) = CeilDiv(total_duration, chunk_duration)
        /\ RSub(total_duration, windows[Len(windows)].start) = windows[Len(windows)].len

\* two consecutive windows were both materialized by the byte-offset splitter
ConsecutiveBytePieces ==
    pc = "check" /\ chunk.by = "bytes" /\ prev_piece.by = "bytes"

-----------------------------------------------------------------------------
(* Properties of _transcribe_chunk (SpecChunk) *)

\* a server-side error: any HTTP 5xx status, or the INTERNAL_SERVER_ERROR code
ServerSide(r) ==
    r.kind = "error" /\ (r.status \in 500..599 \/ r.code = ISE)

\* an error that gives no server-side or internal-error signal: a request
\* that raised, or an error answer that is not 5xx and names
\* INTERNAL_SERVER_ERROR neither as its code nor in its message
NotServerSide(r) ==
    \/ r.kind = "exception"
    \/ r.kind = "error" /\ r.status \notin 500..599 /\ r.code # ISE /\ ~r.mentions

\* C6 as claimed: every server-side error is retried after a wait of 2*k
\* seconds, with at most max_retries requests, and the call raises when the
\* cap is exhausted.
C6_ServerErrorsRetried ==
    /\ Len(tc.answers) <= max_retries
    /\ \A j \in 1..Len(tc.answers) :
          (ServerSide(tc.answers[j]) /\ j < max_retries) =>
              /\ tc.pc = "request" \/ Len(tc.answers) > j
              /\ Len(tc.waits) >= j /\ tc.waits[j] = 2 * j
    /\ (Len(tc.answers) = max_retries /\ ServerSide(tc.answers[max_retries])) =>
          tc.pc = "raised"

\* C7: an error that is not a server-side or internal error ends the call at
\* once: it is the last request, the call raises, and no wait follows it; as
\* the first answer it leaves exactly one request and no wait.
C7_OtherErrorsNotRetried ==
    \A j \in 1..Len(tc.answers) :
        NotServerSide(tc.answers[j]) =>
            /\ j = Len(tc.answers)
            /\ tc.pc = "raised"
            /\ Len(tc.waits) = j - 1

\* C7 witness: HTTP 400 BAD_REQUEST as the first answer
C7_Witness ==
    /\ tc.pc = "raised" /\ Len(tc.answers) = 1 /\ tc.waits = <<>>
    /\ tc.answers[1].status = 400 /\ tc.answers[1].code = "BAD_REQUEST"

-----------------------------------------------------------------------------
(* Properties of the fallback engine (SpecNLU) *)

\* the candidate after name in MODEL_PRIORITIES, wrapping around
NextInPriority(name) ==
    MODEL_PRIORITIES[((IndexOf(name) + 1) % Len(MODEL_PRIORITIES)) + 1]

\* C8: the attempt order is the priority list rotated to start at the
\* last-known-good model (the list itself when there is none), and every
\* candidate is in it exactly once.
C8_AttemptOrderRotation ==
    /\ ModelsToTry(None) = MODEL_PRIORITIES
    /\ npc \in {"try", "returned"} =>
          /\ start_cursor # None => models_to_try[1] = start_cursor
          /\ Len(models_to_try) = Len(MODEL_PRIORITIES)
          /\ \A c \in Candidates :
                Cardinality({j \in 1..Len(models_to_try) : models_to_try[j] = c}) = 1
          /\ \A j \in 1..(Len(models_to_try) - 1) :
                models_to_try[j + 1] = NextInPriority(models_to_try[j])

\* C8 witness: priorities [A, B, C, D] with last-good B give [B, C, D, A]
C8_Witness ==
    /\ npc = "try" /\ start_cursor = MODEL_PRIORITIES[2]
    /\ models_to_try = <<MODEL_PRIORITIES[2], MODEL_PRIORITIES[3],
                         MODEL_PRIORITIES[4], MODEL_PRIORITIES[1]>>

\* C9: candidates are taken in attempt order, one that raises is followed by
\* the next, the first success ends the call, and then model and model_name
\* name the candidate that succeeded.
C9_FirstSuccessWins ==
    /\ npc \in {"try", "returned"} =>
          /\ Len(tried) = k
          /\ \A j \in 1..Len(tried) : tried[j].name = models_to_try[j]
          /\ \A j \in 1..(Len(tried) - 1) : tried[j].how # "ok"
    /\ npc = "try" => \A j \in 1..Len(tried) : tried[j].how # "ok"
    /\ npc = "returned" =>
          /\ tried # <<>> /\ tried[Len(tried)].how = "ok"
          /\ model_name = tried[Len(tried)].name
          /\ model = tried[Len(tried)].name

\* C9 witness: two candidates raised, the third answered and is the cursor
C9_Witness ==
    /\ npc = "returned" /\ Len(tried) = 3
    /\ tried[1].how # "ok" /\ tried[2].how # "ok"
    /\ model_name = models_to_try[3] /\ model_name # start_cursor

\* C10 as claimed: extraction fails only after every candidate was tried once
\* and failed, and the exception carries the error of the last one tried.
C10_FailsCarryingLastError ==
    npc = "failed" =>
        /\ \A c \in Candidates :
              Cardinality({j \in 1..Len(tried) : tried[j].name = c}) = 1
        /\ \A j \in 1..Len(tried) : tried[j].how # "ok"
        /\ failure.carries = tried[Len(tried)]

-----------------------------------------------------------------------------
(* Properties of extract_event_info (SpecExtract) *)

\* what json.loads gave, Invalid before the parse and when it raised
ParsedDoc == IF epc \in {"idle", "call", "strip"} THEN Invalid ELSE JsonLoads(result_text, payload)

IsMapping(e) == e.k = "dict"

\* the mappings among the elements the loop has walked, in the listed order
Walked == SelectSeq(SubSeq(events, 1, ev), IsMapping)

\* the mappings of the whole parsed array
MappingsListed == SelectSeq(events, IsMapping)

\* C11 counterpart on one field: a missing field got the default, a present
\* one kept its value
DefaultedOrKept(given, got, default) ==
    IF given = Absent THEN got = default ELSE got = given

\* C11: a response that is a single JSON object never fails and gives a
\* batch of exactly one record, in which a missing action is "create_event",
\* a missing duration_minutes is 60 and a missing description is None, and
\* action, summary, duration_minutes and description that are present are
\* kept (start_datetime is present exactly when it was given).
C11_ObjectGivesOneRecordWithDefaults ==
    ParsedDoc.k = "dict" =>
        /\ epc # "raised"
        /\ epc = "returned" =>
              /\ Len(processed_events) = 1
              /\ LET given == payload.f
                     got == processed_events[1]
                 IN  /\ DefaultedOrKept(given.action, got.action, Str("create_event"))
                     /\ DefaultedOrKept(given.duration_minutes, got.duration_minutes, Num(60))
                     /\ DefaultedOrKept(given.description, got.description, Null)
                     /\ got.summary = given.summary
                     /\ (got.start_datetime = Absent) <=> (given.start_datetime = Absent)

\* C11 witness: an object with only a summary came back as one record with
\* the three defaults
C11_Witness ==
    /\ epc = "returned"
    /\ payload = Dict([EmptyMapping EXCEPT !.summary = Str("s1")])
    /\ processed_events = <<[action |-> Str("create_event"), summary |-> Str("s1"),
                             start_datetime |-> Absent, duration_minutes |-> Num(60),
                             description |-> Null]>>

\* C12: while an array is walked, an element that is not a mapping is
\* skipped and the walk goes on without raising, every mapping walked so far
\* is in the batch, and a returned batch has as many records as the array
\* has mappings.
C12_NonMappingsDiscarded ==
    ParsedDoc.k = "list" =>
        /\ Len(processed_events) = Len(Walked)
        /\ epc = "raised" => (ev = Len(events) /\ MappingsListed = <<>>)
        /\ epc = "returned" => (ev = Len(events) /\ Len(processed_events) = Len(MappingsListed))

\* C12 witness: two mappings and one other element gave a batch of two
C12_Witness ==
    /\ epc = "returned"
    /\ ParsedDoc.k = "list"
    /\ Len(events) = 3
    /\ \E j \in 1..3 : ~IsMapping(events[j])
    /\ Len(processed_events) = 2

\* the response cannot give a record: not JSON, neither object nor array, or
\* an array without a mapping
NoRecordPossible ==
    \/ ParsedDoc.k \notin {"dict", "list"}
    \/ ParsedDoc.k = "list" /\ MappingsListed = <<>>

\* C13: a returned batch is never empty; once the model has answered,
\* extract_event_info raises exactly when the text is not valid JSON, the
\* value is neither object nor array, or no member is a mapping.
C13_NeverEmptyBatch ==
    /\ epc = "returned" => (Len(processed_events) >= 1 /\ ~NoRecordPossible)
    /\ (epc = "raised" /\ raised # "RuntimeError") => NoRecordPossible
    /\ (epc = "raised" /\ raised # "RuntimeError") => raised = "ValueError"

\* C13 witness: an array of non-mappings made the call raise
C13_Witness ==
    /\ epc = "raised"
    /\ ParsedDoc.k = "list"
    /\ Len(events) >= 2
    /\ raised = "ValueError"

\* C14: every record of a returned batch has a start_datetime that is a
\* timezone-aware datetime.
C14_StartAlwaysAware ==
    epc = "returned" =>
        \A j \in 1..Len(processed_events) :
            /\ processed_events[j].start_datetime.k = "dt"
            /\ processed_events[j].start_datetime.tz # NoTz

\* C15: a record whose start_datetime did not parse is kept, nothing is
\* raised for it, and its start_datetime is the clock of that moment plus one
\* day, in the configured zone.
C15_UnparsedStartIsTomorrow ==
    (epc \in {"loop", "returned"}) =>
        /\ Len(processed_events) = Len(Walked)
        /\ Len(fallbacks) = Len(Walked)
        /\ \A j \in 1..Len(Walked) :
              (/\ Walked[j].f.start_datetime # Absent
               /\ ~ParserParse(Walked[j].f.start_datetime).ok) =>
                  /\ fallbacks[j] \in 0..now
                  /\ processed_events[j].start_datetime =
                        [k |-> "dt", wall |-> fallbacks[j] + ONE_DAY, tz |-> LocalZone]
                  /\ raised = "none"

\* C15 witness: a returned batch with a record whose date string did not
\* parse and another whose start_datetime was null
C15_Witness ==
    /\ epc = "returned"
    /\ \E j \in 1..Len(Walked) : Walked[j].f.start_datetime = Str("the day after")
    /\ now = 1
    /\ \E j \in 1..Len(fallbacks) : fallbacks[j] = 0

-----------------------------------------------------------------------------
(* Properties of handle_voice (SpecVoice) *)

StrictlyIncreasing(seq) == \A a, b \in 1..Len(seq) : a < b => seq[a] < seq[b]

\* C16: the batch lists the records in the order of the model's response
\* (the j-th record comes from the j-th mapping listed), handle_voice walks
\* that batch, and its create_event calls and calendar writes happen in
\* ascending batch position, each for a record of action create_event.
C16_OrderPreserved ==
    /\ (epc \in {"loop", "returned"}) =>
          /\ Len(processed_events) = Len(Walked)
          /\ \A j \in 1..Len(Walked) : processed_events[j].summary = Walked[j].f.summary
    /\ (hpc = "loop" \/ create_calls # <<>>) =>
          /\ events_info = processed_events
          /\ StrictlyIncreasing(create_calls)
          /\ \A c \in 1..Len(create_calls) :
                /\ create_calls[c] \in 1..event_idx
                /\ events_info[create_calls[c]].action = Str("create_event")
          /\ StrictlyIncreasing([c \in 1..Len(calendar) |-> calendar[c].pos])
          /\ \A c \in 1..Len(calendar) :
                /\ \E d \in 1..Len(create_calls) : create_calls[d] = calendar[c].pos
                /\ calendar[c].summary = Walked[calendar[c].pos].f.summary

\* C16 witness: the model listed "s1" then "s2" and both were written to
\* the calendar, "s1" first
C16_Witness ==
    /\ hexit = "returned"
    /\ Len(MappingsListed) = 2
    /\ MappingsListed[1].f.summary = Str("s1")
    /\ MappingsListed[2].f.summary = Str("s2")
    /\ create_calls = <<1, 2>>
    /\ Len(calendar) = 2
    /\ calendar[1].summary = Str("s1")
    /\ calendar[2].summary = Str("s2")

\* C20: when handle_voice has finished, the downloaded .ogg file is gone.
C20_ClipRemovedOnEveryPath ==
    hexit # "none" => ~file_exists

-----------------------------------------------------------------------------
(* Properties of concurrent extractions (SpecRace) *)

\* the entries of thread t that are provider requests
RequestsOf(t) == SelectSeq(th[t].tried, LAMBDA e : e.how = "request")

\* C18: in each of two concurrent extractions the k-th candidate taken is the
\* k-th of its attempt order, every request goes to the candidate the loop
\* is at, no model is requested twice by one extraction, and an extraction
\* fails only after each candidate was itself tried and failed.
C18_RacesOnlyChangeFirstCandidate ==
    \A t \in Threads :
        /\ \A j \in 1..Len(th[t].tried) : th[t].tried[j].name = th[t].order[j]
        /\ \A j \in 1..Len(th[t].tried) :
              th[t].tried[j].how = "request" => th[t].tried[j].to = th[t].tried[j].name
        /\ \A a, b \in 1..Len(RequestsOf(t)) :
              a # b => RequestsOf(t)[a].to # RequestsOf(t)[b].to
        /\ th[t].pc = "failed" =>
              \A c \in Candidates :
                  \E j \in 1..Len(th[t].tried) :
                      /\ th[t].tried[j].name = c
                      /\ th[t].tried[j].how = "request" => th[t].tried[j].to = c

-----------------------------------------------------------------------------
(* Properties of concurrent transcriptions (SpecTemp) *)

\* C17: two concurrent transcribe_voice calls never read, overwrite or delete
\* each other's chunk files or chunk directory, and every text a call keeps
\* comes from its own audio.
C17_NoSharedTemporaryStorage ==
    /\ harm = {}
    /\ \A r \in Calls : \A j \in 1..Len(rq[r].texts) : rq[r].texts[j].audio = r

\* C19: when a call on the chunked path has returned or raised, no chunk
\* file holding its audio exists and the chunk directory it created is gone.
C19_ChunkStorageReleased ==
    \A r \in Calls :
        rq[r].exit # "none" =>
            /\ \A j \in ChunkIndexes : chunk_files[j] # r
            /\ ~(chunks_dir.exists /\ chunks_dir.creator = r)

-----------------------------------------------------------------------------
(* Properties of the chunk loop of transcribe_voice (Spec) *)

\* the window of index idx, as recorded when it was handed to the splitter
FateOf(idx) == windows[idx + 1].fate

\* C21: a provider request is issued only for a chunk file of at most
\* max_size bytes whose duration by _get_audio_duration is at most 30 s; a
\* chunk over either limit is dropped without a request, without a text and
\* without ending the call, and the loop goes on with the next window.
C21_OverLimitChunksSkipped ==
    /\ [](/\ pc \in {"request", "response"} =>
               /\ chunk.size <= max_size
               /\ RLeq(chunk.dur, RInt(DURATION_LIMIT))
               /\ FateOf(i) = "sent"
          /\ \A j \in 1..Len(heard) :
               heard[j].idx >= 0 => FateOf(heard[j].idx) \in {"sent", "done"})
    /\ [][pc = "check" =>
            /\ pc' \in {"split", "request"}
            /\ chunk.size > max_size => pc' = "split"
            /\ pc' = "request" => chunk' = [chunk EXCEPT !.dur = chunk'.dur]
            /\ pc' = "split" =>
                  /\ i' = i + 1
                  /\ heard' = heard /\ chunks_texts' = chunks_texts
                  /\ requests' = requests]_vars

\* C21 witness: the first chunk was measured longer than 30 s and dropped,
\* the second one was sent and its text is the transcript
C21_Witness ==
    /\ pc = "returned"
    /\ Len(windows) >= 2
    /\ windows[1].fate = "too long" /\ windows[2].fate = "done"
    /\ \E j \in 1..Len(heard) : heard[j].idx = 1
    /\ result # <<>>

\* C27: at most one provider request of the chunk loop is unanswered at any
\* moment, it is a request for the newest window, every earlier window is
\* settled (not split, dropped, or its call over), and the texts heard so
\* far came in the order of the windows.
C27_ChunksSequential ==
    /\ Cardinality(in_flight) <= 1
    /\ in_flight # {} =>
          /\ in_flight = {i}
          /\ pc = "response"
          /\ Len(windows) = i + 1
          /\ FateOf(i) = "sent"
    /\ \A j \in 1..(Len(windows) - 1) :
          windows[j].fate \in {"unsplit", "too big", "too long", "done"}
    /\ \A j \in 1..(Len(heard) - 1) : heard[j].idx <= heard[j + 1].idx

\* C27 witness: the call of the first chunk is over and gave a text; the
\* second chunk's call has been answered once and its second request is out
C27_Witness ==
    /\ in_flight = {1}
    /\ windows[1].fate = "done"
    /\ requests = 2
    /\ \E j \in 1..Len(heard) : heard[j].idx = 0

\* the last OGG page header of the clip that starts at or before offset and
\* not more than PAGE_SEARCH_BACK bytes before it, or -1
PageAtOrBefore(c, offset) ==
    IF c.stride = 0 THEN -1
    ELSE LET p == (offset \div c.stride) * c.stride
         IN  IF p >= offset - PAGE_SEARCH_BACK /\ p + 4 <= c.size THEN p ELSE -1

\* C28: a non-first chunk written by the byte-offset splitter starts at the
\* nearest OGG page header at or before its target offset when there is one
\* within the search distance, else at the target offset itself; it never
\* starts after the target offset.
C28_SplitAtNearestPageBefore ==
    (pc = "check" /\ chunk.by = "bytes" /\ chunk.target > 0) =>
        /\ chunk.lo = IF PageAtOrBefore(clip, chunk.target) >= 0
                      THEN PageAtOrBefore(clip, chunk.target)
                      ELSE chunk.target
        /\ chunk.lo <= chunk.target

-----------------------------------------------------------------------------
(* Properties of the byte-offset splitter (SpecSplit) *)

\* C29: whatever the file, the start offset and the length asked for, the
\* chunk file written by _split_audio_file_by_bytes has at most
\* int(max_size * 0.9) bytes, also when it starts at a page header found by
\* the search.
C29_ChunkUnderSizeLimit ==
    sp.pc = "done" => sp.piece.size <= SafeChunkBytes

-----------------------------------------------------------------------------
(* Properties of the calendar writes of handle_voice (SpecVoice) *)

\* C22: create_event is called, and the calendar or the database written,
\* only after extract_event_info has returned, with the handler holding the
\* complete batch it returned; when the extraction raised nothing is written.
C22_NoWriteBeforeFullBatch ==
    /\ (create_calls # <<>> \/ calendar # <<>> \/ db_events # <<>>) =>
          /\ epc = "returned"
          /\ events_info = processed_events
          /\ events_info # <<>>
    /\ epc # "returned" =>
          /\ create_calls = <<>> /\ calendar = <<>> /\ db_events = <<>>
          /\ created_events = <<>> /\ errors = <<>>

\* C22 witness: a batch of two records was returned and the calendar written
\* for the second one
C22_Witness ==
    /\ epc = "returned"
    /\ Len(events_info) = 2
    /\ \E j \in 1..Len(calendar) : calendar[j].pos = 2

\* C23: create_event has been called exactly once, in order, for each
\* record of the batch the loop has passed, whatever the record's action and
\* whatever happened to the records before it.
C23_CreateCalledOncePerRecord ==
    hpc \in {"loop", "done"} => create_calls = [j \in 1..event_idx |-> j]

-----------------------------------------------------------------------------
(* Properties of the records of a returned batch (SpecExtract) *)

\* C24: every record of a returned batch has a duration_minutes that is an
\* integer above zero.
C24_DurationPositiveInteger ==
    epc = "returned" =>
        \A j \in 1..Len(processed_events) :
            /\ processed_events[j].duration_minutes.k = "num"
            /\ processed_events[j].duration_minutes.n > 0

\* the actions of an EventIntent
Actions == {Str("create_event"), Str("update_event"), Str("delete_event")}

\* C25: every record of a returned batch has one of the three actions and a
\* summary that is a non-empty string.
C25_ActionAndSummaryValid ==
    epc = "returned" =>
        \A j \in 1..Len(processed_events) :
            /\ processed_events[j].action \in Actions
            /\ processed_events[j].summary.k = "str"
            /\ processed_events[j].summary.s # ""

-----------------------------------------------------------------------------
(* Properties of _transcribe_chunk on a failed connection (SpecChunk) *)

\* C26: a request that timed out or failed at the network level is retried
\* like a server error: the call raises on such a failure only when it was
\* the failure of its last allowed request, and it has slept before every
\* further request.
C26_TimeoutsRetried ==
    (tc.pc = "raised" /\ tc.answers[Len(tc.answers)].kind = "exception") =>
        /\ Len(tc.answers) = max_retries
        /\ Len(tc.waits) = max_retries - 1

-----------------------------------------------------------------------------
(* Properties of the fence removal of extract_event_info (SpecExtract) *)

\* the text after its first line
RECURSIVE DropLine(_)
DropLine(t) ==
    IF t = <<>> THEN <<>>
    ELSE IF Head(t) = NL THEN Tail(t) ELSE DropLine(Tail(t))

\* a response without its markdown wrapping: without the opening line (three
\* backticks and whatever language tag follows them) when it starts with
\* three backticks, without the closing three backticks when it ends with
\* them, and without the whitespace around what is left
Unfenced(t) ==
    LET a == IF StartsWith(t, Fence) THEN DropLine(t) ELSE t
        b == IF EndsWith(a, Fence) THEN SubSeq(a, 1, Len(a) - 3) ELSE a
    IN  StripWS(b)

\* C30: the text handed to the JSON parser is the response without its
\* markdown wrapping, whatever the language tag, so that it parses to what
\* the bare document parses to; a response without fences is handed over as
\* it is.
C30_FencesStripped ==
    [][epc = "strip" =>
         /\ result_text' = Unfenced(result_text)
         /\ JsonLoads(result_text', payload) = JsonLoads(Unfenced(result_text), payload)
         /\ (~StartsWith(result_text, Fence) /\ ~EndsWith(result_text, Fence))
               => result_text' = result_text]_vars

-----------------------------------------------------------------------------
(* Properties of the start instant of a record (SpecExtract) *)

\* C31: a start_datetime that parses to a timestamp without zone becomes
\* the same wall-clock time in the configured local zone, and one that
\* parses to a timestamp with a zone is kept as parsed.
C31_NaiveStartGetsLocalZone ==
    (epc \in {"loop", "returned"}) =>
        /\ Len(processed_events) = Len(Walked)
        /\ \A j \in 1..Len(Walked) :
              LET p == ParserParse(Walked[j].f.start_datetime)
                  got == processed_events[j].start_datetime
              IN  (Walked[j].f.start_datetime # Absent /\ p.ok) =>
                     IF p.dt.tz = NoTz
                     THEN got = [k |-> "dt", wall |-> p.dt.wall, tz |-> LocalZone]
                     ELSE got = p.dt

\* C31 witness: a returned batch with a record whose start had no zone and
\* one whose start was given in UTC
C31_Witness ==
    /\ epc = "returned"
    /\ \E j \in 1..Len(processed_events) :
          /\ Walked[j].f.start_datetime = Str("2025-01-15 15:00:00")
          /\ processed_events[j].start_datetime.tz = LocalZone
    /\ \E j \in 1..Len(processed_events) :
          /\ Walked[j].f.start_datetime = Str("2025-01-15T15:00:00Z")
          /\ processed_events[j].start_datetime.tz = UTC

-----------------------------------------------------------------------------
(* Properties of the reminders and of the per-record report (SpecVoice) *)

InCalendar(pos) == \E j \in 1..Len(calendar) : calendar[j].pos = pos
InDatabase(pos) == \E j \in 1..Len(db_events) : db_events[j] = pos
ReportedCreated(pos) == \E j \in 1..Len(created_events) : created_events[j] = pos
ReportedFailed(pos) ==
    \E j \in 1..Len(errors) : errors[j].pos = pos /\ errors[j].why = "failed"
RowsOf(pos, m) == {n \in notifications : n.pos = pos /\ n.minutes_before = m}

\* C32: every event that was written to the calendar and the database has
\* exactly one notification row per configured offset whose instant is
\* still ahead of the clock, and no row for an offset that has passed.
C32_RemindersStored ==
    \A pos \in 1..event_idx :
        InDatabase(pos) =>
            \A m \in NOTIFICATION_TIMES :
                LET at == events_info[pos].start_datetime.wall * MINUTES_PER_HOUR - m
                IN  Cardinality(RowsOf(pos, m)) =
                        IF at > now * MINUTES_PER_HOUR THEN 1 ELSE 0

\* C33: a record of the batch is all or nothing: either it is in the
\* calendar and in the database and reported as created, or it is in
\* neither; a record reported as failed is not in the calendar.
C33_FailedRecordNotWritten ==
    \A pos \in 1..event_idx :
        /\ ReportedFailed(pos) => ~InCalendar(pos)
        /\ \/ InCalendar(pos) /\ InDatabase(pos) /\ ReportedCreated(pos)
           \/ ~InCalendar(pos) /\ ~InDatabase(pos) /\ ~ReportedCreated(pos)
              /\ \A m \in NOTIFICATION_TIMES : RowsOf(pos, m) = {}

-----------------------------------------------------------------------------
(* The cursor of a fallback call that fails (SpecNLU) *)

\* C34: while _try_models_with_fallback has only seen candidates raise, and
\* when it gives up after all of them raised, self.model and
\* self.model_name are what they were when the call built its attempt
\* order; no attempt that raises changes them.
C34_CursorKeptWhenAllFail ==
    /\ [](((npc \in {"try", "failed"}) /\ models_to_try # <<>>) =>
             (model_name = start_cursor /\ model = start_cursor))
    /\ [][(npc = "try" /\ npc' # "returned") => UNCHANGED <<model, model_name>>]_vars

\* C34 witness: the call gave up after all four candidates raised, three of
\* them candidates other than the cursor, and the cursor is the one it
\* started from
C34_Witness ==
    /\ npc = "failed"
    /\ Len(tried) = Len(MODEL_PRIORITIES)
    /\ start_cursor # None
    /\ tried[1].name = start_cursor
    /\ \A j \in 2..Len(tried) : tried[j].name # start_cursor /\ tried[j].how # "ok"
    /\ model_name = start_cursor

-----------------------------------------------------------------------------
(* Properties of the per-user calendar services (SpecCache) *)

Quiet == \A t \in Handlers : kt[t].pc = "idle"

\* C35: when no call is under way, a cached service of a user who has a
\* credentials row holds the credentials of that row.
C35_CacheNeverStale ==
    (Quiet /\ user_calendar_services # NoService /\ credentials_row # NoCreds) =>
        user_calendar_services.creds = credentials_row

-----------------------------------------------------------------------------
(* Properties of the two-step credential setup (SpecSetup) *)

\* the last message carried only a password and its sender had a pending email
SecondStep ==
    /\ handled.email = NoEmail
    /\ handled.password # NoPassword
    /\ handled.pending # NoEmail

\* the last message wrote the sender's row
WroteRow == handled.did \in {"saved", "connect error"}

\* C36: a password-only message of a user with a pending email saves
\* (pending email, password) as that user's row and removes the pending
\* entry; whenever a row is written from a pending email the entry is
\* cleared; a message changes neither the row nor the entry of another user.
C36_TwoStepSetup ==
    /\ [](SecondStep =>
            /\ urows[handled.user] = [yandex_user |-> handled.pending,
                                      yandex_password |-> handled.password]
            /\ user_setup_state[handled.user] = NoEmail)
    /\ []((SecondStep /\ WroteRow) => user_setup_state[handled.user] = NoEmail)
    /\ [][\A v \in Users : v # handled'.user =>
             /\ urows'[v] = urows[v]
             /\ user_setup_state'[v] = user_setup_state[v]]_vars

-----------------------------------------------------------------------------
(* Properties of the notification job (SpecSched) *)

-----------------------------------------------------------------------------
(* Properties of database.save_user_credentials (SpecUpsert) *)

\* C38: no call for the user ends with an error, and once a call has
\* ended the table holds exactly one row for the user, with the values of
\* one of the calls.
C38_Upsert ==
    /\ \A t \in Callers : dcall[t].exit # "raised"
    /\ (\E t \in Callers : dcall[t].exit = "returned") =>
          /\ Cardinality(user_credentials) = 1
          /\ user_credentials \subseteq dsaved

=============================================================================
